---- MODULE Spec2Model ----
(***************************************************************************)
(* Model of the 1-Wire driver stack: the ROM search engine of              *)
(* embedded-onewire (blocking OneWireSearch and suspending                 *)
(* OneWireSearchAsync) with its CRC-8, and the DS2484 bridge controller    *)
(* (busy-poll, device reset, Configuration register writes).               *)
(*                                                                         *)
(* Every record lists its fields in the order in which the names first     *)
(* occur in this module, so that a record is built in the order TLC keeps  *)
(* it in.                                                                  *)
(***************************************************************************)
EXTENDS Naturals, Integers, Sequences, FiniteSets, TLC

(***************************************************************************)
(* Bounds of the model.                                                    *)
(***************************************************************************)
MaxDevices == 3
MaxCalls == MaxDevices + 2

(***************************************************************************)
(* Byte arithmetic (u8).                                                   *)
(***************************************************************************)
XorBit(a, b, k) == (((a \div (2 ^ k)) + (b \div (2 ^ k))) % 2) * (2 ^ k)

Xor8(a, b) ==
  XorBit(a, b, 0) + XorBit(a, b, 1) + XorBit(a, b, 2) + XorBit(a, b, 3) +
  XorBit(a, b, 4) + XorBit(a, b, 5) + XorBit(a, b, 6) + XorBit(a, b, 7)

\* byte & mask > 0, for a one-bit mask
Bit(byte, mask) == (byte \div mask) % 2 = 1

\* byte |= mask, for a one-bit mask
SetBit(byte, mask) == IF Bit(byte, mask) THEN byte ELSE byte + mask

\* byte &= !mask, for a one-bit mask
ClearBit(byte, mask) == IF Bit(byte, mask) THEN byte - mask ELSE byte

(***************************************************************************)
(* CRC-8 (utils.rs).                                                       *)
(***************************************************************************)
\* the shift without the polynomial
CrcShift_only == [crc \in 0..255 |-> crc \div 2]

\* one iteration of the loop of update_calc, as a table over the accumulator
CrcShift == [crc \in 0..255 |->
               IF crc % 2 = 1 THEN Xor8(crc \div 2, 140) ELSE crc \div 2]

update_calc(crc, byte) ==
  CrcShift[CrcShift[CrcShift[CrcShift[
  CrcShift[CrcShift[CrcShift[CrcShift[Xor8(crc, byte)]]]]]]]]

\* the lookup table of update_table
ONEWIRE_SRC_TABLE ==
  <<
     0, 94, 188, 226, 97, 63, 221, 131, 194, 156, 126, 32, 163, 253, 31, 65,
     157, 195, 33, 127, 252, 162, 64, 30, 95, 1, 227, 189, 62, 96, 130, 220,
     35, 125, 159, 193, 66, 28, 254, 160, 225, 191, 93, 3, 128, 222, 60, 98,
     190, 224, 2, 92, 223, 129, 99, 61, 124, 34, 192, 158, 29, 67, 161, 255,
     70, 24, 250, 164, 39, 121, 155, 197, 132, 218, 56, 102, 229, 187, 89, 7,
     219, 133, 103, 57, 186, 228, 6, 88, 25, 71, 165, 251, 120, 38, 196, 154,
     101, 59, 217, 135, 4, 90, 184, 230, 167, 249, 27, 69, 198, 152, 122, 36,
     248, 166, 68, 26, 153, 199, 37, 123, 58, 100, 134, 216, 91, 5, 231, 185,
     140, 210, 48, 110, 237, 179, 81, 15, 78, 16, 242, 172, 47, 113, 147, 205,
     17, 79, 173, 243, 112, 46, 204, 146, 211, 141, 111, 49, 178, 236, 14, 80,
     175, 241, 19, 77, 206, 144, 114, 44, 109, 51, 209, 143, 12, 82, 176, 238,
     50, 108, 142, 208, 83, 13, 239, 177, 240, 174, 76, 18, 145, 207, 45, 115,
     202, 148, 118, 40, 171, 245, 23, 73, 8, 86, 180, 234, 105, 55, 213, 139,
     87, 9, 235, 181, 54, 104, 138, 212, 149, 203, 41, 119, 244, 170, 72, 22,
     233, 183, 85, 11, 136, 214, 52, 106, 43, 117, 151, 201, 74, 20, 246, 168,
     116, 42, 200, 150, 21, 75, 169, 247, 182, 232, 10, 84, 215, 137, 107, 53
  >>

\* the table entry of the accumulator alone
update_table_stale(crc, byte) == ONEWIRE_SRC_TABLE[crc + 1]

update_table(crc, byte) == ONEWIRE_SRC_TABLE[Xor8(crc, byte) + 1]

\* update(): update_calc unless feature crc-table is enabled
update(crc, byte) == update_calc(crc, byte)

RECURSIVE CrcOver(_, _, _)
CrcOver(crc, sequence, i) ==
  IF i > Len(sequence) THEN crc
  ELSE CrcOver(update(crc, sequence[i]), sequence, i + 1)

validate(sequence) == CrcOver(0, sequence, 1) = 0

(***************************************************************************)
(* u64 values are kept as four 16-bit limbs, least significant first.      *)
(***************************************************************************)
from_le_bytes(b) ==
  << b[1] + 256 * b[2], b[3] + 256 * b[4], b[5] + 256 * b[6], b[7] + 256 * b[8] >>

to_le_bytes(v) ==
  << v[1] % 256, v[1] \div 256, v[2] % 256, v[2] \div 256,
     v[3] % 256, v[3] \div 256, v[4] % 256, v[4] \div 256 >>

(***************************************************************************)
(* The simulated bus: a set of devices, each an 8-byte ROM                 *)
(* [family, serial x 6, crc].                                              *)
(***************************************************************************)
MkRom(fam, serial) ==
  << fam, serial[1], serial[2], serial[3], serial[4], serial[5], serial[6],
     CrcOver(0, << fam >> \o serial, 1) >>

SerialA == << 1, 0, 0, 0, 0, 0 >>
SerialB == << 3, 0, 0, 0, 0, 128 >>

\* a code whose CRC byte is wrong in its top bit
BadCrc(r) == [r EXCEPT ![8] = Xor8(r[8], 128)]

\* three valid codes, one with family byte zero, one with a wrong CRC
Pool ==
  { MkRom(40, SerialA), MkRom(40, SerialB), MkRom(16, SerialA),
    MkRom(0, SerialB), BadCrc(MkRom(40, SerialB)) }

\* the codes verify() is called with
VerifyCodes ==
  { from_le_bytes(MkRom(40, SerialA)), from_le_bytes(MkRom(16, SerialA)) }

Families == {0, 40}

ValidRom(r) == r[1] # 0 /\ validate(r)

\* bit n (1..64) of a ROM, bit 1 = least significant bit of the family byte
RomBit(r, n) == Bit(r[((n - 1) \div 8) + 1], 2 ^ ((n - 1) % 8))

(***************************************************************************)
(* What the devices on the bus answer during a search pass.  part is the   *)
(* set of devices still taking part; a device drops out when the bit       *)
(* written differs from its own.  The line is a wired AND.                 *)
(***************************************************************************)
IdBit(part, idx, rom_mask) == \A d \in part : Bit(d[idx + 1], rom_mask)

ComplementBit(part, idx, rom_mask) == \A d \in part : ~Bit(d[idx + 1], rom_mask)

AfterWrite(part, idx, rom_mask, bit) ==
  part \ { d \in part : Bit(d[idx + 1], rom_mask) # bit }

\* the write slot of a triplet (traits.rs: two read slots, one write slot)
TripletWrite(id_bit, complement_bit, direction) ==
  IF ~id_bit /\ ~complement_bit THEN direction
  ELSE IF ~id_bit /\ complement_bit THEN FALSE
  ELSE TRUE

(***************************************************************************)
(* Results.                                                                *)
(***************************************************************************)
None == [tag |-> "None", val |-> << >>]
Some(v) == [tag |-> "Some", val |-> v]
Err(e) == [tag |-> "Err", val |-> e]
Ok(v) == [tag |-> "Ok", val |-> v]

NoFault == [kind |-> "none", at |-> 0]

(***************************************************************************)
(* The search state (search.rs, search_async.rs).                          *)
(***************************************************************************)
new_search ==
  [last_device |-> FALSE, last_discrepancy |-> 0, last_family_discrepancy |-> 0,
   family |-> 0, rom |-> << 0, 0, 0, 0, 0, 0, 0, 0 >>]

with_family(f) ==
  [last_device |-> FALSE, last_discrepancy |-> 0, last_family_discrepancy |-> 0,
   family |-> f, rom |-> << f, 0, 0, 0, 0, 0, 0, 0 >>]

reset_keeps_rom(s) ==
  [s EXCEPT !.last_device = FALSE, !.last_discrepancy = 0,
            !.last_family_discrepancy = 0]

reset(s) ==
  [s EXCEPT !.last_device = FALSE, !.last_discrepancy = 0,
            !.last_family_discrepancy = 0,
            !.rom = << s.family, 0, 0, 0, 0, 0, 0, 0 >>]

\* the navigation direction at bit id_bit_num
direction_never_one(s, id_bit_num, idx, rom_mask) ==
  IF id_bit_num < s.last_discrepancy
  THEN Bit(s.rom[idx + 1], rom_mask)
  ELSE FALSE

direction(s, id_bit_num, idx, rom_mask) ==
  IF id_bit_num < s.last_discrepancy
  THEN Bit(s.rom[idx + 1], rom_mask)
  ELSE id_bit_num = s.last_discrepancy

\* the end of one loop iteration: next bit, next mask, next byte
NextMask(rom_mask) == (rom_mask * 2) % 256

(***************************************************************************)
(* The loop of next().  The loop variables are kept in a record l:         *)
(*   s (the search fields), part (devices still taking part),              *)
(*   id_bit_num, last_zero, idx, rom_mask,                                 *)
(*   ops (the transport calls made so far),                                *)
(*   res: "run", or how the loop ended: "done" (break true),               *)
(*        "corrupt" (break false), "err" (return Err),                     *)
(*        "unimpl" (return Err(Unimplemented)).                            *)
(***************************************************************************)
\* the calls next() has made on the transport, by primitive
NoOps ==
  [reset |-> 0, write_byte |-> 0, read_bit |-> 0, write_bit |-> 0, read_triplet |-> 0]

\* k more calls of primitive op
Called(l, op, k) == [l EXCEPT !.ops[op] = @ + k]

\* the loop begins after reset() and write_byte(cmd)
LoopStart(s, devs) ==
  [part |-> devs, idx |-> 0, rom_mask |-> 1, s |-> s, id_bit_num |-> 1,
   ops |-> [NoOps EXCEPT !.reset = 1, !.write_byte = 1], last_zero |-> 0,
   res |-> "run"]

\* the two bits read at the current position (both 1 when the line glitches)
ReadId(l, fault) ==
  (fault.kind = "corrupt" /\ fault.at = l.id_bit_num) \/ IdBit(l.part, l.idx, l.rom_mask)

ReadComplement(l, fault) ==
  (fault.kind = "corrupt" /\ fault.at = l.id_bit_num)
    \/ ComplementBit(l.part, l.idx, l.rom_mask)

\* last_zero = id_bit_num; if last_zero < 9 { last_family_discrepancy = last_zero }
remember_zero(l) ==
  [l EXCEPT !.last_zero = l.id_bit_num,
            !.s.last_family_discrepancy = IF l.id_bit_num < 9 THEN l.id_bit_num ELSE @]

\* the end of an iteration: after bit 64 the pass is complete
EndOfBit(l, m2) ==
  [l EXCEPT !.idx = IF m2 = 0 THEN @ + 1 ELSE @,
            !.rom_mask = IF m2 = 0 THEN 1 ELSE m2,
            !.s.last_discrepancy = IF l.id_bit_num > 64 THEN l.last_zero ELSE @,
            !.s.last_device = IF l.id_bit_num > 64 THEN l.last_zero = 0 ELSE @,
            !.res = IF l.id_bit_num > 64 THEN "done" ELSE "run"]

\* store the bit in the ROM buffer, let the devices see the bit written,
\* move to the next bit
Advance(l, set, written) ==
  EndOfBit([l EXCEPT !.s.rom[l.idx + 1] =
                       IF set THEN SetBit(@, l.rom_mask) ELSE ClearBit(@, l.rom_mask),
                     !.part = AfterWrite(l.part, l.idx, l.rom_mask, written),
                     !.id_bit_num = @ + 1],
           NextMask(l.rom_mask))

\* one iteration of the loop of OneWireSearch::next (blocking)
BlockingSet(trip, l, fault, dir, id_bit, complement_bit) ==
  IF fault.kind = "bit_err" /\ fault.at = l.id_bit_num
  THEN [l EXCEPT !.res = "err"]
  ELSE IF id_bit /\ complement_bit
  THEN [l EXCEPT !.res = "corrupt"]
  ELSE IF id_bit # complement_bit
  THEN Advance(IF trip THEN l ELSE Called(l, "write_bit", 1), id_bit,
               IF trip THEN TripletWrite(id_bit, complement_bit, dir) ELSE id_bit)
  ELSE Advance(IF trip THEN l ELSE Called(l, "write_bit", 1), dir,
               IF trip THEN TripletWrite(id_bit, complement_bit, dir) ELSE dir)

\* the read_bit calls of the path without triplet: the second one is not
\* made when the first fails
ReadBits(l, fault) ==
  Called(l, "read_bit", IF fault.kind = "bit_err" /\ fault.at = l.id_bit_num THEN 1 ELSE 2)

\* read_triplet, and the two read_bit when it answers Unimplemented
BlockingCalls(trip, l, fault) ==
  IF trip THEN Called(l, "read_triplet", 1)
  ELSE ReadBits(Called(l, "read_triplet", 1), fault)

BlockingRead(trip, l, fault, dir) ==
  BlockingSet(trip, BlockingCalls(trip, l, fault), fault, dir,
              ReadId(l, fault), ReadComplement(l, fault))

BlockingDir(trip, l, fault, dir) ==
  BlockingRead(trip, IF ~dir THEN remember_zero(l) ELSE l, fault, dir)

BlockingStep(trip, l, fault) ==
  IF l.res # "run" THEN l
  ELSE BlockingDir(trip, l, fault,
                   direction(l.s, l.id_bit_num, l.idx, l.rom_mask))

\* one iteration of the loop of OneWireSearchAsync::next on the path
\* without triplet: two read_bit, then write_bit(set)
AsyncZero(l, idir) ==
  Advance(Called(IF ~idir THEN remember_zero(l) ELSE l, "write_bit", 1), idir, idir)

AsyncSet(l, fault, id_bit, complement_bit) ==
  IF fault.kind = "bit_err" /\ fault.at = l.id_bit_num
  THEN [l EXCEPT !.res = "err"]
  ELSE IF id_bit /\ complement_bit
  THEN [l EXCEPT !.res = "corrupt"]
  ELSE IF id_bit # complement_bit
  THEN Advance(Called(l, "write_bit", 1), id_bit, id_bit)
  ELSE AsyncZero(l, direction(l.s, l.id_bit_num, l.idx, l.rom_mask))

AsyncStep(l, fault) ==
  IF l.res # "run" THEN l
  ELSE AsyncSet(ReadBits(l, fault), fault, ReadId(l, fault), ReadComplement(l, fault))

\* one iteration of the loop of OneWireSearchAsync::next built with feature
\* triplet-read, on a transport that keeps the default read_triplet of
\* OneWireAsync: `self.onewire.read_triplet().await?`
\* returns Err(OneWireError::Unimplemented), which `?` hands to the caller
AsyncTripletStep(l) ==
  IF l.res # "run" THEN l
  ELSE [Called(l, "read_triplet", 1) EXCEPT !.res = "unimpl"]

LoopStep(v, trip, l, fault) ==
  IF v = "blocking" THEN BlockingStep(trip, l, fault)
  ELSE IF v = "async" THEN AsyncStep(l, fault)
  ELSE AsyncTripletStep(l)

\* k iterations in a row, evaluated by halves; nothing runs after the loop ended
RECURSIVE Iterate(_, _, _, _, _)
IterateRest(v, trip, h, fault, k) ==
  IF h.res # "run" THEN h ELSE Iterate(v, trip, h, fault, k)

Iterate(v, trip, l, fault, k) ==
  IF k = 1 THEN LoopStep(v, trip, l, fault)
  ELSE IterateRest(v, trip, Iterate(v, trip, l, fault, k \div 2), fault,
                   k - (k \div 2))

\* the whole loop: it ends within 64 iterations
SearchLoop(v, trip, s, devs, fault) ==
  Iterate(v, trip, LoopStart(s, devs), fault, 64)

\* the family filter rejects the code found
family_mismatch_off(s) == FALSE

family_mismatch(s) == s.family # 0 /\ s.rom[1] # s.family

\* what next() returns after the loop
finish_unchecked(s, res) ==
  IF res # "done" THEN None
  ELSE IF family_mismatch(s) THEN None
  ELSE Some(from_le_bytes(s.rom))

finish(s, res) ==
  IF res # "done" \/ s.rom[1] = 0 THEN None
  ELSE IF ~validate(s.rom) THEN Err("InvalidCrc")
  ELSE IF family_mismatch(s) THEN None
  ELSE Some(from_le_bytes(s.rom))

(***************************************************************************)
(* next(): the state afterwards, the result, and how far the call got      *)
(* (pass = "none" when it returned before the loop).                       *)
(***************************************************************************)
\* last_zero stored when the loop ends, however it ends
AfterLoop_last_zero(l) ==
  IF l.res = "err"
  THEN [r |-> Err("Other"), s |-> l.s, ops |-> l.ops, pass |-> "err"]
  ELSE IF l.res = "unimpl"
  THEN [r |-> Err("Unimplemented"), s |-> l.s, ops |-> l.ops, pass |-> "err"]
  ELSE [r |-> finish(l.s, l.res),
        s |-> [l.s EXCEPT !.last_discrepancy = l.last_zero], ops |-> l.ops, pass |-> l.res]

AfterLoop(l) ==
  IF l.res = "err"
  THEN [r |-> Err("Other"), s |-> l.s, ops |-> l.ops, pass |-> "err"]
  ELSE IF l.res = "unimpl"
  THEN [r |-> Err("Unimplemented"), s |-> l.s, ops |-> l.ops, pass |-> "err"]
  ELSE [r |-> finish(l.s, l.res), s |-> l.s, ops |-> l.ops, pass |-> l.res]

\* the guard on an exhausted search
exhausted_never(s) == FALSE

exhausted(s) == s.last_device

next(v, trip, s, devs, fault) ==
  IF fault.kind = "overdrive"
  THEN [r |-> Err("BusInvalidSpeed"), s |-> s, ops |-> NoOps, pass |-> "none"]
  ELSE IF exhausted(s)
  THEN [r |-> None, s |-> s, ops |-> NoOps, pass |-> "none"]
  ELSE IF fault.kind = "reset_err"
  THEN [r |-> Err("Other"), s |-> s, ops |-> [NoOps EXCEPT !.reset = 1],
        pass |-> "none"]
  ELSE IF devs = {}
  THEN [r |-> Err("NoDevicePresent"), s |-> s, ops |-> [NoOps EXCEPT !.reset = 1],
        pass |-> "none"]
  ELSE IF fault.kind = "short"
  THEN [r |-> Err("ShortCircuit"), s |-> s, ops |-> [NoOps EXCEPT !.reset = 1],
        pass |-> "none"]
  ELSE IF fault.kind = "cmd_err"
  THEN [r |-> Err("Other"), s |-> s, ops |-> [NoOps EXCEPT !.reset = 1, !.write_byte = 1],
        pass |-> "none"]
  ELSE AfterLoop(SearchLoop(v, trip, s, devs, fault))

(***************************************************************************)
(* verify(rom)                                                             *)
(***************************************************************************)
seed(s, code) ==
  [reset(s) EXCEPT !.rom = to_le_bytes(code), !.last_discrepancy = 64]

\* what verify does with the result of the inner next()
AfterVerify(n, code) ==
  IF n.r.tag = "Err"
  THEN [r |-> n.r, s |-> n.s, ops |-> n.ops]
  ELSE [r |-> Ok(n.r.tag = "Some" /\ n.r.val = code), s |-> reset(n.s), ops |-> n.ops]

verify(v, trip, s, devs, code, fault) ==
  AfterVerify(next(v, trip, seed(s, code), devs, fault), code)

(***************************************************************************)
(* The DS2484 bridge (ds2484-rs).  A call works on a context x: the        *)
(* fields of the handle (retries, reset, overdrive), the configuration     *)
(* object in use (config, its stored byte), the chip behind the I2C bus    *)
(* (chip), the I2C transfers made so far (log), the locals of the last     *)
(* poll loop (tries, status, polls, line_busy) and the result r.           *)
(* A failed context passes through every later step unchanged: that is     *)
(* the `?` after each call.                                                *)
(***************************************************************************)
READ_PTR_CMD == 225
DEVICE_STATUS_PTR == 240
DEVICE_RST_CMD == 240
ONEWIRE_RESET_CMD == 180
ONEWIRE_WRITE_BYTE == 165
ONEWIRE_READ_BYTE == 150
ONEWIRE_READ_DATA_PTR == 225
ONEWIRE_SINGLE_BIT == 135
ONEWIRE_TRIPLET == 120
ONEWIRE_SKIP_ROM_CMD_OD == 60
CONFIG_WRITE_ADDR == 210
CONFIG_READ_PTR == 195

MaxRetries == 1
MaxBusy == 3

\* I2C transfers
Write(bytes) == [op |-> "write", bytes |-> bytes]
Read == [op |-> "read", bytes |-> << >>]
WriteRead(bytes) == [op |-> "write_read", bytes |-> bytes]

never_failed(x) == FALSE

Failed(x) == x.r.tag # "Ok"

\* one I2C transfer and the `?` after it: the transfer numbered x.fail_at
\* of a call fails in the transport
send(x, t) ==
  IF Failed(x) THEN x
  ELSE IF Len(x.log) + 1 = x.fail_at
  THEN [x EXCEPT !.log = Append(@, t), !.r = Err("I2c")]
  ELSE [x EXCEPT !.log = Append(@, t)]

\* DeviceStatus getters (bitfield over u8, fields from bit 0)
onewire_busy(status) == Bit(status, 1)
present_pulse_detect(status) == Bit(status, 2)
short_detect(status) == Bit(status, 4)
logic_level(status) == Bit(status, 8)
device_reset_low(status) == Bit(status, 8)
device_reset(status) == Bit(status, 16)
single_bit_result(status) == Bit(status, 32)
triplet_second_bit(status) == Bit(status, 64)
branch_dir_taken(status) == Bit(status, 128)

\* DeviceStatus::from_bits(status), every field read through its getter
status_from_bits(status) ==
  [onewire_busy |-> onewire_busy(status),
   present_pulse_detect |-> present_pulse_detect(status),
   short_detect |-> short_detect(status),
   logic_level |-> logic_level(status),
   device_reset |-> device_reset(status),
   single_bit_result |-> single_bit_result(status),
   triplet_second_bit |-> triplet_second_bit(status),
   branch_dir_taken |-> branch_dir_taken(status)]

\* DeviceConfiguration: #[bitfield(u8, into=cfg_to_u8)].  The struct stores
\* a byte; getters and setters see it through cfg_to_u8, setters store the
\* result as it is, and conversion to u8 hands out the stored byte.
cfg_to_u8_raw(cfg) == cfg

cfg_to_u8(cfg) == (cfg % 16) + 16 * (15 - (cfg % 16))

with_flag(cfg, mask, value) ==
  IF value THEN SetBit(cfg_to_u8(cfg), mask) ELSE ClearBit(cfg_to_u8(cfg), mask)

with_active_pullup(cfg, value) == with_flag(cfg, 1, value)
with_power_down_1wire(cfg, value) == with_flag(cfg, 2, value)
with_strong_pullup(cfg, value) == with_flag(cfg, 4, value)
with_onewire_speed(cfg, value) == with_flag(cfg, 8, value)
with_reserved(cfg, value) == (cfg_to_u8(cfg) % 16) + 16 * value

active_pullup(cfg) == Bit(cfg_to_u8(cfg), 1)
power_down_1wire(cfg) == Bit(cfg_to_u8(cfg), 2)
strong_pullup(cfg) == Bit(cfg_to_u8(cfg), 4)
onewire_speed(cfg) == Bit(cfg_to_u8(cfg), 8)

\* DeviceConfiguration::new(): every field set to its default, in order
DeviceConfiguration_new ==
  with_reserved(
    with_onewire_speed(
      with_strong_pullup(
        with_power_down_1wire(with_active_pullup(0, FALSE), FALSE), FALSE),
      FALSE),
    0)

\* DeviceConfiguration::from(u8) / from_bits: the byte is stored as it is
from_bits(byte) == byte

\* the four flags a configuration object shows
flags(cfg) ==
  [active_pullup |-> active_pullup(cfg), power_down_1wire |-> power_down_1wire(cfg),
   strong_pullup |-> strong_pullup(cfg), onewire_speed |-> onewire_speed(cfg)]

\* the byte a Configuration write puts on the I2C bus: self.0, u8::from(*self)
config_byte(cfg) == cfg

\* the configurations the callers build
Configs ==
  { DeviceConfiguration_new,
    with_active_pullup(DeviceConfiguration_new, TRUE),
    with_onewire_speed(DeviceConfiguration_new, FALSE),
    cfg_to_u8(8) }

\* OneWirePortConfiguration: eight bytes, each a tag in the high nibble and
\* a table index in the low nibble
PORT_WRITE_ADDR == 195
PORT_READ_PTR == 180

OneWirePortConfiguration_default ==
  [t_rstl |-> 6, t_rstl_od |-> 22, t_msp |-> 38, t_msp_od |-> 54,
   t_w0l |-> 70, t_w0l_od |-> 86, t_rec0 |-> 102, r_wpu |-> 134]

to_bytes(p) ==
  << PORT_WRITE_ADDR, p.t_rstl, p.t_rstl_od, p.t_msp, p.t_msp_od,
     p.t_w0l, p.t_w0l_od, p.t_rec0, p.r_wpu >>

\* from_bytes without the tags
from_bytes_untagged(bytes) ==
  [t_rstl |-> bytes[1], t_rstl_od |-> bytes[2], t_msp |-> bytes[3],
   t_msp_od |-> bytes[4], t_w0l |-> bytes[5], t_w0l_od |-> bytes[6],
   t_rec0 |-> bytes[7], r_wpu |-> bytes[8]]

from_bytes(bytes) ==
  [t_rstl |-> bytes[1] % 16,
   t_rstl_od |-> (bytes[2] % 16) + 16,
   t_msp |-> (bytes[3] % 16) + 32,
   t_msp_od |-> (bytes[4] % 16) + 48,
   t_w0l |-> (bytes[5] % 16) + 64,
   t_w0l_od |-> (bytes[6] % 16) + 80,
   t_rec0 |-> (bytes[7] % 16) + 96,
   r_wpu |-> (bytes[8] % 16) + 128]

\* the tables of OneWireConfigurationBuilder
reset_pulse_NORMAL ==
  << 440000, 460000, 480000, 500000, 520000, 540000, 560000, 580000, 600000,
     620000, 640000, 660000, 680000, 700000, 720000, 740000 >>

reset_pulse_OVERDRIVE ==
  << 44000, 46000, 48000, 50000, 52000, 54000, 56000, 58000, 60000, 62000,
     64000, 66000, 68000, 70000, 72000, 74000 >>

presence_detect_time_NORMAL ==
  << 58000, 58000, 60000, 62000, 64000, 66000, 68000, 70000, 72000, 74000,
     76000, 76000, 76000, 76000, 76000, 76000 >>

presence_detect_time_OVERDRIVE ==
  << 5500, 5500, 6000, 6500, 7000, 7500, 8000, 8500, 9000, 9500, 10000,
     10500, 11000, 11000, 11000, 11000 >>

write_zero_low_time_NORMAL ==
  << 52000, 54000, 56000, 58000, 60000, 62000, 64000, 66000, 68000, 70000,
     70000, 70000, 70000, 70000, 70000, 70000 >>

write_zero_low_time_OVERDRIVE ==
  << 5000, 5500, 6000, 6500, 7000, 7500, 8000, 8500, 9000, 9500, 10000,
     10000, 10000, 10000, 10000, 10000 >>

write_zero_recovery_time_VALUES ==
  << 275, 275, 275, 275, 275, 275, 525, 775, 1025, 1275, 1525, 1775, 2025,
     2275, 2525, 2525 >>

\* table.iter().position(|&v| v >= value), from entry i on
RECURSIVE position(_, _, _)
position(table, value, i) ==
  IF i > Len(table) THEN None
  ELSE IF table[i] >= value THEN Some(i - 1)
  ELSE position(table, value, i + 1)

unwrap_or(opt, default) == IF opt.tag = "Some" THEN opt.val ELSE default

\* (field & 0xf0) | index
set_index(field, index) == (field - (field % 16)) + index

reset_pulse(cfg, normal, overdrive) ==
  [cfg EXCEPT
     !.t_rstl = set_index(@, unwrap_or(position(reset_pulse_NORMAL, normal, 1), 0)),
     !.t_rstl_od =
        set_index(@, unwrap_or(position(reset_pulse_OVERDRIVE, overdrive, 1), 0))]

presence_detect_time(cfg, normal, overdrive) ==
  [cfg EXCEPT
     !.t_msp =
        set_index(@, unwrap_or(position(presence_detect_time_NORMAL, normal, 1), 0)),
     !.t_msp_od =
        set_index(@, unwrap_or(position(presence_detect_time_OVERDRIVE, overdrive, 1), 0))]

write_zero_low_time(cfg, normal, overdrive) ==
  [cfg EXCEPT
     !.t_w0l =
        set_index(@, unwrap_or(position(write_zero_low_time_NORMAL, normal, 1), 0)),
     !.t_w0l_od =
        set_index(@, unwrap_or(position(write_zero_low_time_OVERDRIVE, overdrive, 1), 0))]

write_zero_recovery_time(cfg, value) ==
  [cfg EXCEPT
     !.t_rec0 =
        set_index(@, unwrap_or(position(write_zero_recovery_time_VALUES, value, 1), 0))]

\* r_wpu &= 0xf0 below 1000 Ohm, r_wpu &= 0xff otherwise
weak_pullup_resistor(cfg, value) ==
  IF value < 1000 THEN [cfg EXCEPT !.r_wpu = @ - (@ % 16)] ELSE cfg

\* the getters of OneWirePortConfiguration (u32 arithmetic, no value near
\* the width); three of them share their names with builder methods
reset_time(cfg) == (cfg.t_rstl % 16) * 20000 + 440000

reset_time_overdrive(cfg) == (cfg.t_rstl_od % 16) * 2000 + 44000

get_presence_detect_time(cfg) ==
  (IF cfg.t_msp % 16 <= 1 THEN 58
   ELSE IF cfg.t_msp % 16 >= 13 THEN 76
   ELSE 60 + ((cfg.t_msp % 16) - 2) * 2) * 100

presence_detect_time_overdrive(cfg) ==
  (IF cfg.t_msp_od % 16 <= 1 THEN 55
   ELSE IF cfg.t_msp_od % 16 >= 13 THEN 110
   ELSE 60 + ((cfg.t_msp_od % 16) - 2) * 5) * 100

get_write_zero_low_time(cfg) ==
  IF cfg.t_w0l % 16 >= 10 THEN 70000 ELSE 52000 + (cfg.t_w0l % 16) * 2000

write_zero_low_time_overdrive(cfg) ==
  IF cfg.t_w0l_od % 16 >= 10 THEN 10000 ELSE 5000 + (cfg.t_w0l_od % 16) * 500

get_write_zero_recovery_time(cfg) ==
  IF cfg.t_rec0 % 16 <= 4 THEN 2750
  ELSE IF cfg.t_rec0 % 16 >= 15 THEN 25250
  ELSE 2750 + ((cfg.t_rec0 % 16) - 5) * 2500

\* what the getters report, under the name of the field each one reads
times(cfg) ==
  [t_rstl |-> reset_time(cfg), t_rstl_od |-> reset_time_overdrive(cfg),
   t_msp |-> get_presence_detect_time(cfg),
   t_msp_od |-> presence_detect_time_overdrive(cfg),
   t_w0l |-> get_write_zero_low_time(cfg),
   t_w0l_od |-> write_zero_low_time_overdrive(cfg),
   t_rec0 |-> get_write_zero_recovery_time(cfg)]

\* The chip: RST, the reset results PPD, SD and the single bit result SBR of
\* the Status register, and the low nibble of the Configuration register.
ChipAfterReset(shown) ==
  [cfg |-> 0, rst |-> shown, ppd |-> FALSE, sd |-> FALSE, sbr |-> FALSE]

ChipStatus(c, busy) ==
  (IF busy THEN 1 ELSE 0) + (IF c.ppd THEN 2 ELSE 0) +
  (IF c.sd THEN 4 ELSE 0) + (IF c.rst THEN 16 ELSE 0) +
  (IF c.sbr THEN 32 ELSE 0)

\* a Configuration write is taken only with the complement in the high nibble
ChipWriteConfig(c, byte) ==
  IF byte \div 16 = 15 - (byte % 16)
  THEN [c EXCEPT !.cfg = byte % 16, !.rst = FALSE]
  ELSE c

\* what the line does during a call: the first env.busy Status reads of a
\* wait show 1WB (all of them when env.always), a 1-Wire reset finds
\* presence/short, a device reset shows RST or not, and the I2C transfer
\* numbered env.fail_at fails (0: none does)
Env(always, busy, presence, short, rst_shown, fail_at) ==
  [fail_at |-> fail_at, busy |-> busy, always |-> always, presence |-> presence,
   short |-> short, rst_shown |-> rst_shown]

\* how long the line stays busy
BusyEnvs ==
  { Env(FALSE, b, TRUE, FALSE, TRUE, 0) : b \in 0..MaxBusy }
    \cup { Env(TRUE, 0, TRUE, FALSE, TRUE, 0) }

\* what a 1-Wire reset finds: devices, nothing, a short
LineEnvs ==
  { Env(FALSE, 0, TRUE, FALSE, TRUE, 0), Env(FALSE, 0, FALSE, FALSE, TRUE, 0),
    Env(FALSE, 0, FALSE, TRUE, TRUE, 0), Env(TRUE, 0, TRUE, FALSE, TRUE, 0) }

\* whether the chip shows RST after a Device Reset
ResetEnvs == { Env(FALSE, 0, TRUE, FALSE, s, 0) : s \in BOOLEAN }

\* the chip shows RST only after some Status reads
SlowResetEnvs == { Env(FALSE, b, TRUE, FALSE, TRUE, 0) : b \in 1..MaxBusy }

\* the line is free, or never becomes free
WaitEnvs == { Env(a, 0, TRUE, FALSE, TRUE, 0) : a \in BOOLEAN }

\* a transport error at one of the first n transfers of the call
FaultEnvs(n) == { Env(FALSE, 0, TRUE, FALSE, TRUE, k) : k \in 1..n }

LineBusy(env, k) == env.always \/ k <= env.busy

\* after a Device Reset the chip shows RST from Status read env.busy + 1 on
RstShown(env, k) == k > env.busy

\* the Status byte at read k of a poll: of the poll for RST after a Device
\* Reset (no 1-Wire activity), or of a poll for 1WB = 0
ChipStatusAt(c, wantRst, env, k) ==
  IF wantRst
  THEN ChipStatus([c EXCEPT !.rst = @ /\ RstShown(env, k)], FALSE)
  ELSE ChipStatus(c, LineBusy(env, k))

\* the status the loop tests after a read: the blocking variant reads into
\* a temporary array holding a copy of status.0, the suspending variant
\* decodes the buffer read
status_after_read(v, status, actual) ==
  IF v = "blocking" THEN status ELSE actual

\* the poll loop of bus_reset (wantRst) and of onewire_wait: read, test,
\* count; tries is a u8 that starts at 0, so that read k is made with
\* tries = k - 1, and status starts as DeviceStatus::default()
LoopBreaks(x, wantRst, tries, st) ==
  (IF wantRst THEN device_reset(st) ELSE ~onewire_busy(st)) \/ tries > x.retries

\* read k is the last of the loop: its transfer fails, the loop breaks
\* after it, or `tries += 1` finds tries = 255
LoopEnds(v, x, wantRst, env, k) ==
  \/ Len(x.log) + k = x.fail_at
  \/ LoopBreaks(x, wantRst, k - 1,
                status_after_read(v, 0, ChipStatusAt(x.chip, wantRst, env, k)))
  \/ k - 1 = 255

LastRead(v, x, wantRst, env) ==
  CHOOSE k \in 1..256 :
    /\ LoopEnds(v, x, wantRst, env, k)
    /\ \A j \in 1..(k - 1) : ~LoopEnds(v, x, wantRst, env, j)

\* the reads before the last one, none of which failed
reads(x, n) == [x EXCEPT !.log = @ \o [i \in 1..n |-> Read]]

\* after the last read
PollRead(v, x, wantRst, env, tries, st, actual) ==
  IF Failed(x) THEN x
  ELSE IF LoopBreaks(x, wantRst, tries, st)
  THEN [x EXCEPT !.tries = tries, !.status = st,
                 !.polls = tries + 1, !.line_busy = onewire_busy(actual)]
  ELSE [x EXCEPT !.tries = tries, !.status = st,
                 !.polls = tries + 1, !.line_busy = onewire_busy(actual),
                 !.r = [tag |-> "Overflow", val |-> "tries"]]

PollStatus(v, x, wantRst, env, tries, status, actual) ==
  PollRead(v, x, wantRst, env, tries, status_after_read(v, status, actual), actual)

PollLast(v, x, wantRst, env, k) ==
  PollStatus(v, send(reads(x, k - 1), Read), wantRst, env, k - 1, 0,
             ChipStatusAt(x.chip, wantRst, env, k))

poll(v, x, wantRst, env, tries, status) ==
  IF Failed(x) THEN x ELSE PollLast(v, x, wantRst, env, LastRead(v, x, wantRst, env))

\* bus_reset(): Device Reset, then poll for RST
bus_reset_result(x) ==
  IF Failed(x) THEN x
  ELSE [x EXCEPT !.r = IF x.tries > x.retries
                        THEN Err("RetriesExceeded") ELSE Ok(x.status)]

after_device_reset(x, env) ==
  IF Failed(x) THEN x
  ELSE [x EXCEPT !.reset = TRUE, !.chip = ChipAfterReset(env.rst_shown)]

bus_reset(v, x, env) ==
  IF Failed(x) THEN x
  ELSE bus_reset_result(
         poll(v, after_device_reset(send(x, Write(<< DEVICE_RST_CMD >>)), env),
              TRUE, env, 0, 0))

\* onewire_wait(): point at the Status register, then poll for 1WB = 0
onewire_wait_result(x) ==
  IF Failed(x) THEN x
  ELSE [x EXCEPT !.r = IF onewire_busy(x.status) /\ x.tries > x.retries
                        THEN Err("RetriesExceeded") ELSE Ok(x.status)]

onewire_wait(v, x, env) ==
  IF Failed(x) THEN x
  ELSE onewire_wait_result(
         poll(v, send(x, Write(<< READ_PTR_CMD, DEVICE_STATUS_PTR >>)),
              FALSE, env, 0, 0))

\* DeviceConfiguration::read / async_read
config_loaded(v, x) ==
  IF Failed(x) THEN x
  ELSE [x EXCEPT !.config = IF v = "blocking" THEN @ ELSE from_bits(x.chip.cfg)]

config_read(v, x) ==
  IF Failed(x) THEN x
  ELSE config_loaded(v, send(x, WriteRead(<< READ_PTR_CMD, CONFIG_READ_PTR >>)))

\* DeviceConfiguration::write / async_write after its onewire_wait
config_send(v, x, c) ==
  IF Failed(x) THEN x
  ELSE [x EXCEPT !.chip = c,
                 !.config = IF v = "blocking" THEN @ ELSE from_bits(c.cfg),
                 !.reset = FALSE,
                 !.r = Ok(0)]

config_written(v, x) ==
  IF Failed(x) THEN x
  ELSE config_send(v,
         send(x, WriteRead(<< CONFIG_WRITE_ADDR, config_byte(x.config) >>)),
         ChipWriteConfig(x.chip, config_byte(x.config)))

config_write(v, x, env) == config_written(v, onewire_wait(v, x, env))

\* what the chip does with an Adjust 1-Wire Port frame: it takes the index
\* of each control byte, unless 1-Wire activity is going on
ChipAdjustPort(reg, frame, busy) ==
  IF busy THEN reg ELSE [i \in 1..8 |-> frame[i + 1] % 16]

\* the eight bytes the chip returns when its port configuration is read
ChipPortBytes(reg) == reg

\* OneWirePortConfiguration::read / async_read
port_loaded(x) ==
  IF Failed(x) THEN x
  ELSE [x EXCEPT !.port = from_bytes(ChipPortBytes(x.port_reg)), !.r = Ok(0)]

port_read(x) ==
  IF Failed(x) THEN x
  ELSE port_loaded(send(x, WriteRead(<< READ_PTR_CMD, PORT_READ_PTR >>)))

\* OneWirePortConfiguration::write / async_write
port_sent(x, frame) ==
  IF Failed(x) THEN x
  ELSE [x EXCEPT !.port_reg = ChipAdjustPort(@, frame, x.line_busy)]

port_send(x) ==
  IF Failed(x) THEN x
  ELSE port_sent(send(x, Write(to_bytes(x.port))), to_bytes(x.port))

port_write(v, x, env) == port_read(port_send(onewire_wait(v, x, env)))

\* DeviceStatus::read / async_read and get_status(): the pointer select and
\* the read are one transfer; the object starts as DeviceStatus::default()
status_loaded(v, x, actual) ==
  IF Failed(x) THEN x
  ELSE [x EXCEPT !.status = status_after_read(v, 0, actual),
                 !.polls = 1,
                 !.line_busy = onewire_busy(actual)]

status_read(v, x, env) ==
  IF Failed(x) THEN x
  ELSE status_loaded(v, send(x, WriteRead(<< READ_PTR_CMD, DEVICE_STATUS_PTR >>)),
                     ChipStatus(x.chip, LineBusy(env, 1)))

get_status_result(x) == IF Failed(x) THEN x ELSE [x EXCEPT !.r = Ok(x.status)]

get_status(v, x, env) == get_status_result(status_read(v, x, env))

\* DeviceStatus::write / async_write: nothing is sent
status_write(x) == IF Failed(x) THEN x ELSE [x EXCEPT !.r = Ok(0)]

\* Ds2484Builder::build
NewContext(n, cfg, c) ==
  [r |-> Ok(0), reset |-> FALSE, log |-> << >>, fail_at |-> 0,
   status |-> 0, overdrive |-> FALSE, tries |-> 0, retries |-> n, chip |-> c,
   polls |-> 0, line_busy |-> FALSE, config |-> cfg]

\* the transport behind the handle during this call
Armed(x, env) == [x EXCEPT !.fail_at = env.fail_at]

set_overdrive(x) ==
  IF Failed(x) THEN x ELSE [x EXCEPT !.overdrive = onewire_speed(x.config)]

build(v, n, cfg, c, env) ==
  set_overdrive(
    config_write(v, bus_reset(v, Armed(NewContext(n, cfg, c), env), env), env))

\* the check at the head of the blocking primitives
uninitialized(v, x) == v = "blocking" /\ x.reset

\* OneWire::reset of the bridge
\* a reset_outcome that marks the handle after a short
reset_outcome_flagged(x) ==
  IF Failed(x) THEN x
  ELSE IF short_detect(x.status)
  THEN [x EXCEPT !.r = Err("ShortCircuit"), !.reset = TRUE]
  ELSE IF ~present_pulse_detect(x.status) THEN [x EXCEPT !.r = Err("NoDevicePresent")]
  ELSE x

reset_outcome(x) ==
  IF Failed(x) THEN x
  ELSE IF short_detect(x.status) THEN [x EXCEPT !.r = Err("ShortCircuit")]
  ELSE IF ~present_pulse_detect(x.status) THEN [x EXCEPT !.r = Err("NoDevicePresent")]
  ELSE x

line_reset(x, env) ==
  IF Failed(x) THEN x
  ELSE [x EXCEPT !.chip.ppd = env.presence \/ env.short,
                 !.chip.sd = env.short]

reset_command(x, env) ==
  IF Failed(x) THEN x
  ELSE line_reset(send(x, Write(<< ONEWIRE_RESET_CMD >>)), env)

onewire_reset(v, x, env) ==
  IF Failed(x) THEN x
  ELSE IF uninitialized(v, x) THEN [x EXCEPT !.r = Err("BusUninitialized")]
  ELSE reset_outcome(onewire_wait(v, reset_command(onewire_wait(v, x, env), env), env))

\* Ok(value) after the steps before
returns(x, value) == IF Failed(x) THEN x ELSE [x EXCEPT !.r = Ok(value)]

\* OneWire::write_byte of the bridge
write_byte_command(x, byte) ==
  IF Failed(x) THEN x
  ELSE returns(send(x, Write(<< ONEWIRE_WRITE_BYTE, byte >>)), 0)

write_byte(v, x, byte, env) ==
  IF Failed(x) THEN x
  ELSE IF uninitialized(v, x) THEN [x EXCEPT !.r = Err("BusUninitialized")]
  ELSE write_byte_command(onewire_wait(v, x, env), byte)

\* OneWire::read_byte of the bridge; the read data register holds 0
read_data(x) ==
  returns(send(x, WriteRead(<< READ_PTR_CMD, ONEWIRE_READ_DATA_PTR >>)), 0)

read_byte(v, x, env) ==
  IF Failed(x) THEN x
  ELSE IF uninitialized(v, x) THEN [x EXCEPT !.r = Err("BusUninitialized")]
  ELSE read_data(
         onewire_wait(v,
           send(onewire_wait(v, x, env), Write(<< ONEWIRE_READ_BYTE >>)), env))

\* what the chip does with a single-bit command: it runs a time slot and
\* keeps the level sampled in SBR; a write-zero slot holds the line low, in a
\* write-one slot the devices decide the level
bit_slot(x, bit, level) ==
  IF Failed(x) THEN x ELSE [x EXCEPT !.chip.sbr = bit /\ level]

\* OneWire::write_bit of the bridge
write_bit(v, x, bit, env, level) ==
  IF Failed(x) THEN x
  ELSE IF uninitialized(v, x) THEN [x EXCEPT !.r = Err("BusUninitialized")]
  ELSE returns(
         bit_slot(send(onewire_wait(v, x, env),
                       Write(<< ONEWIRE_SINGLE_BIT, IF bit THEN 128 ELSE 0 >>)),
                  bit, level),
         0)

\* OneWire::read_bit of the bridge
bit_read(x) ==
  IF Failed(x) THEN x ELSE [x EXCEPT !.r = Ok(single_bit_result(x.status))]

read_bit(v, x, env, level) ==
  IF Failed(x) THEN x
  ELSE IF uninitialized(v, x) THEN [x EXCEPT !.r = Err("BusUninitialized")]
  ELSE bit_read(onewire_wait(v, write_bit(v, x, TRUE, env, level), env))

\* OneWire::read_triplet of the bridge: the direction byte comes from the
\* Status read before the command
triplet_read(x) ==
  IF Failed(x) THEN x
  ELSE [x EXCEPT !.r = Ok(<< single_bit_result(x.status), triplet_second_bit(x.status),
                             branch_dir_taken(x.status) >>)]

triplet_command(x) ==
  IF Failed(x) THEN x
  ELSE send(x, Write(<< ONEWIRE_TRIPLET,
                        IF branch_dir_taken(x.status) THEN 255 ELSE 0 >>))

read_triplet(v, x, env) ==
  IF Failed(x) THEN x
  ELSE IF uninitialized(v, x) THEN [x EXCEPT !.r = Err("BusUninitialized")]
  ELSE triplet_read(onewire_wait(v, triplet_command(onewire_wait(v, x, env)), env))

\* OneWire::get_overdrive_mode of the bridge
get_overdrive_mode(x) == IF Failed(x) THEN x ELSE [x EXCEPT !.r = Ok(x.overdrive)]

\* OneWire::set_overdrive_mode of the bridge
set_speed(x, value) ==
  IF Failed(x) THEN x ELSE [x EXCEPT !.config = with_onewire_speed(@, value)]

set_flag(x, value) ==
  IF Failed(x) THEN x ELSE [x EXCEPT !.overdrive = value]

unit(x) == IF Failed(x) THEN x ELSE [x EXCEPT !.r = Ok(0)]

enter_overdrive(v, x, env) ==
  onewire_reset(v,
    set_flag(
      config_write(v,
        set_speed(
          write_byte(v, onewire_reset(v, x, env), ONEWIRE_SKIP_ROM_CMD_OD, env),
          TRUE),
        env),
      TRUE),
    env)

leave_overdrive(v, x, env) ==
  onewire_reset(v, set_flag(config_write(v, set_speed(x, FALSE), env), FALSE), env)

speed_change(v, x, enable, env) ==
  IF Failed(x) THEN x
  ELSE IF enable = onewire_speed(x.config) THEN unit(x)
  ELSE IF ~onewire_speed(x.config) THEN unit(enter_overdrive(v, x, env))
  ELSE unit(leave_overdrive(v, x, env))

set_overdrive_mode(v, x, enable, env) ==
  speed_change(v, config_read(v, [x EXCEPT !.config = DeviceConfiguration_new]),
               enable, env)

(***************************************************************************)
(* OneWire::address / OneWireAsync::address (traits.rs, traits_async.rs):  *)
(* a default method over the primitives of the transport.  w is the        *)
(* transport during the call: the primitive calls made so far (calls), the *)
(* call that fails (fail_at, 0: none) and the result r.                    *)
(***************************************************************************)
ONEWIRE_MATCH_ROM_CMD == 85
ONEWIRE_SKIP_ROM_CMD == 204
ONEWIRE_MATCH_ROM_CMD_OD == 105

TransportCall(op, byte) == [byte |-> byte, op |-> op]

Transport(fail_at) == [r |-> Ok(0), fail_at |-> fail_at, calls |-> << >>]

\* one call on the transport and the `?` after it
call(w, c) ==
  IF Failed(w) THEN w
  ELSE IF Len(w.calls) + 1 = w.fail_at
  THEN [w EXCEPT !.calls = Append(@, c), !.r = Err("Other")]
  ELSE [w EXCEPT !.calls = Append(@, c)]

rom_command_standard(od, target) ==
  IF target.tag = "Some" THEN ONEWIRE_MATCH_ROM_CMD ELSE ONEWIRE_SKIP_ROM_CMD

rom_command(od, target) ==
  IF target.tag = "Some"
  THEN (IF od THEN ONEWIRE_MATCH_ROM_CMD_OD ELSE ONEWIRE_MATCH_ROM_CMD)
  ELSE IF od THEN ONEWIRE_SKIP_ROM_CMD_OD
  ELSE ONEWIRE_SKIP_ROM_CMD

\* for &b in rom.to_le_bytes().iter() { self.write_byte(b)?; }
RECURSIVE write_bytes(_, _, _)
write_bytes(w, bytes, i) ==
  IF i > Len(bytes) THEN w
  ELSE write_bytes(call(w, TransportCall("write_byte", bytes[i])), bytes, i + 1)

address_rom(w, target) ==
  IF target.tag = "Some" THEN write_bytes(w, to_le_bytes(target.val), 1) ELSE w

address(od, target, fail_at) ==
  address_rom(
    call(call(call(Transport(fail_at), TransportCall("get_overdrive_mode", 0)),
              TransportCall("reset", 0)),
         TransportCall("write_byte", rom_command(od, target))),
    target)

(***************************************************************************)
(* State.  The search fields keep their names; the rest is the simulated   *)
(* bus and the record of what the calls returned.                          *)
(***************************************************************************)
VARIABLES
  bus,                      \* the devices on the bus (set of 8-byte ROMs)
  variant,                  \* "blocking" (OneWireSearch) or "async"
  triplet,                  \* the transport implements read_triplet
  last_device, last_discrepancy, last_family_discrepancy, family, rom,
  found,                    \* codes returned as Some since the search was fresh
  calls,                    \* next() calls since the search was fresh
  clean,                    \* no fault and no failed verify since then
  origin,                   \* how the search became fresh: "new" or "verify"
  lastOp, lastArg, lastRes, lastPass, preExhausted,
  lastFault,                \* what the transport did wrong during the last call
  lastOps,                  \* the transport calls the last call made
  dev,                      \* the bridge handle: retries, reset, overdrive
  chip,                     \* the DS2484 behind the I2C bus
  i2c_log,                  \* the I2C transfers of the last bridge call
  lastCall,                 \* the last bridge call: op, arg, env, r, polls, ...
  conf,                     \* a DeviceConfiguration object (its stored byte)
  od,                       \* get_overdrive_mode() of the transport address() runs on
  wire,                     \* the primitive calls of the last address()
  libCall,                  \* the last call on conf or of address(): op, arg, r, ...
  crc,                      \* a OneWireCrc fed through update_calc (its .0)
  crc_table,                \* a OneWireCrc fed the same bytes through update_table
  sequence,                 \* the bytes fed, or the bytes validate() was called with
  port,                     \* a OneWirePortConfiguration object (or a builder's cfg)
  port_reg,                 \* the port configuration register of the chip (8 indices)
  group,                    \* a Ds28ea00Group<N>: N, devices, roms
  groupCall                 \* the last call on the group: op, bus, r, what it stored

svars == << bus, triplet, last_device, last_discrepancy,
            last_family_discrepancy, family, rom, found, calls, clean, origin,
            lastOp, lastArg, lastRes, lastPass, preExhausted,
            lastFault, lastOps >>

bvars == << dev, chip, i2c_log, lastCall >>

lvars == << conf, od, wire, libCall >>

lvars_but_call == << conf, od, wire >>

cvars == << crc, crc_table, sequence >>

pvars == << port, port_reg >>

gvars == << group, groupCall >>

vars == << variant, svars, bvars, lvars, cvars, pvars, gvars >>

\* what the handle and the chip were before a call
Before_call(d, c) ==
  [reset |-> d.reset, overdrive |-> d.overdrive, speed |-> Bit(c.cfg, 8)]

NoCall ==
  [r |-> Ok(0), op |-> "none", always |-> FALSE,
   env |-> Env(FALSE, 0, TRUE, FALSE, TRUE, 0), polls |-> 0,
   line_busy |-> FALSE, arg |-> 0,
   pre |-> Before_call([reset |-> FALSE, overdrive |-> FALSE], ChipAfterReset(TRUE))]

\* the bridge while the search is the subject: a handle as build() first
\* makes it, the chip after power-on
BridgeParked ==
  /\ dev = [reset |-> FALSE, overdrive |-> FALSE, retries |-> 0]
  /\ chip = ChipAfterReset(TRUE)
  /\ i2c_log = << >>
  /\ lastCall = NoCall

NoLibCall == [r |-> Ok(0), op |-> "none", fail_at |-> 0, arg |-> 0]

\* the configuration object and the transport while they are not the subject
LibParked ==
  /\ conf = DeviceConfiguration_new
  /\ od = FALSE
  /\ wire = << >>
  /\ libCall = NoLibCall

\* OneWirePortConfiguration::default(), and the register after power-on
PortParked ==
  /\ port = OneWirePortConfiguration_default
  /\ port_reg = [i \in 1..8 |-> 6]

\* no group: Ds28ea00Group<0>, never called
NoGroupCall ==
  [r |-> Ok(0), op |-> "none", bus |-> {}, stores |-> << >>, returned |-> << >>]

GroupParked ==
  /\ group = [N |-> 0, devices |-> 0, roms |-> << >>]
  /\ groupCall = NoGroupCall

\* OneWireCrc::default() twice, nothing fed
CrcParked ==
  /\ crc = 0
  /\ crc_table = 0
  /\ sequence = << >>

SearchState ==
  [last_device |-> last_device, last_discrepancy |-> last_discrepancy,
   last_family_discrepancy |-> last_family_discrepancy,
   family |-> family, rom |-> rom]

SetSearchState(s) ==
  /\ last_device' = s.last_device
  /\ last_discrepancy' = s.last_discrepancy
  /\ last_family_discrepancy' = s.last_family_discrepancy
  /\ family' = s.family
  /\ rom' = s.rom

\* the bit position at which a fault inside the loop strikes
FaultBit == 9

Faults ==
  { NoFault,
    [kind |-> "overdrive", at |-> 0],   \* get_overdrive_mode() is true
    [kind |-> "reset_err", at |-> 0],   \* reset() fails in the transport
    [kind |-> "short", at |-> 0],       \* the reset status shows a short
    [kind |-> "cmd_err", at |-> 0],     \* write_byte(cmd) fails in the transport
    [kind |-> "bit_err", at |-> FaultBit],   \* reading the bits fails
    [kind |-> "corrupt", at |-> FaultBit] }  \* both bits read 1

\* the faults tried on verify(): one before the loop, one inside it
VerifyFaults ==
  { NoFault,
    [kind |-> "overdrive", at |-> 0],
    [kind |-> "bit_err", at |-> FaultBit] }

Codes(devs) == { from_le_bytes(d) : d \in devs }

SearchInit ==
  /\ bus \in { b \in SUBSET Pool : Cardinality(b) <= MaxDevices }
  /\ variant \in {"blocking", "async", "async_triplet"}
  /\ triplet \in (IF variant = "blocking" THEN BOOLEAN ELSE {FALSE})
  /\ \E f \in Families :
       LET s == IF f = 0 THEN new_search ELSE with_family(f)
       IN  /\ last_device = s.last_device
           /\ last_discrepancy = s.last_discrepancy
           /\ last_family_discrepancy = s.last_family_discrepancy
           /\ family = s.family
           /\ rom = s.rom
  /\ found = << >>
  /\ calls = 0
  /\ clean = TRUE
  /\ origin = "new"
  /\ lastOp = "none"
  /\ lastArg = << >>
  /\ lastRes = None
  /\ lastPass = "none"
  /\ preExhausted = FALSE
  /\ lastFault = NoFault
  /\ lastOps = NoOps
  /\ BridgeParked
  /\ LibParked
  /\ CrcParked
  /\ PortParked
  /\ GroupParked

\* one call of next(): n is what the call did
SearchNextDo(n, fault) ==
  /\ SetSearchState(n.s)
  /\ lastRes' = n.r
  /\ lastPass' = n.pass
  /\ found' = IF clean /\ fault = NoFault
               THEN (IF n.r.tag = "Some" THEN Append(found, n.r.val) ELSE found)
               ELSE << >>
  /\ clean' = (clean /\ fault = NoFault)
  /\ calls' = IF clean /\ fault = NoFault THEN calls + 1 ELSE 0
  /\ lastOp' = "next"
  /\ lastArg' = << >>
  /\ preExhausted' = last_device
  /\ lastFault' = fault
  /\ lastOps' = n.ops
  /\ UNCHANGED << bus, variant, triplet, origin, bvars, lvars, cvars, pvars, gvars >>

SearchNext ==
  /\ clean => calls < MaxCalls
  /\ \E fault \in Faults :
       SearchNextDo(next(variant, triplet, SearchState, bus, fault), fault)

\* one call of verify(code): n is what the call did
VerifyDo(n, code, fault) ==
  /\ SetSearchState(n.s)
  /\ lastRes' = n.r
  /\ clean' = (n.r.tag = "Ok")
  /\ origin' = IF n.r.tag = "Ok" THEN "verify" ELSE origin
  /\ found' = << >>
  /\ calls' = 0
  /\ lastOp' = "verify"
  /\ lastArg' = code
  /\ lastPass' = "none"
  /\ preExhausted' = last_device
  /\ lastFault' = fault
  /\ lastOps' = n.ops
  /\ UNCHANGED << bus, variant, triplet, bvars, lvars, cvars, pvars, gvars >>

Verify ==
  \E code \in VerifyCodes, fault \in VerifyFaults :
    VerifyDo(verify(variant, triplet, SearchState, bus, code, fault), code, fault)

SearchNextStep == SearchNext \/ Verify

SearchSpec == SearchInit /\ [][SearchNextStep]_vars

(***************************************************************************)
(* The bridge as a state machine: one action per call.                     *)
(***************************************************************************)
\* the search while the bridge is the subject
SearchParked ==
  /\ bus = {}
  /\ triplet = FALSE
  /\ last_device = new_search.last_device
  /\ last_discrepancy = new_search.last_discrepancy
  /\ last_family_discrepancy = new_search.last_family_discrepancy
  /\ family = new_search.family
  /\ rom = new_search.rom
  /\ found = << >>
  /\ calls = 0
  /\ clean = TRUE
  /\ origin = "new"
  /\ lastOp = "none"
  /\ lastArg = << >>
  /\ lastRes = None
  /\ lastPass = "none"
  /\ preExhausted = FALSE
  /\ lastFault = NoFault
  /\ lastOps = NoOps

BridgeInit ==
  /\ variant \in {"blocking", "async"}
  /\ dev \in [retries : 0..MaxRetries, reset : {FALSE}, overdrive : {FALSE}]
  /\ chip = ChipAfterReset(TRUE)
  /\ i2c_log = << >>
  /\ lastCall = NoCall
  /\ SearchParked
  /\ LibParked
  /\ CrcParked
  /\ PortParked
  /\ GroupParked

\* a call on the handle, with configuration object cfg
Context(cfg) ==
  [NewContext(dev.retries, cfg, chip) EXCEPT !.reset = dev.reset,
                                              !.overdrive = dev.overdrive]

\* x is what the call did
BridgeCall(op, arg, x, env) ==
  /\ dev' = [reset |-> x.reset, overdrive |-> x.overdrive, retries |-> x.retries]
  /\ chip' = x.chip
  /\ i2c_log' = x.log
  /\ lastCall' = [r |-> x.r, op |-> op, always |-> env.always, env |-> env,
                  polls |-> x.polls, line_busy |-> x.line_busy, arg |-> arg,
                  pre |-> Before_call(dev, chip)]
  /\ UNCHANGED << variant, svars, lvars, cvars, gvars >>

BridgeDo(op, arg, x, env) ==
  /\ BridgeCall(op, arg, x, env)
  /\ UNCHANGED pvars

Build ==
  \E cfg \in Configs, env \in ResetEnvs \cup WaitEnvs \cup FaultEnvs(5) :
    BridgeDo("build", cfg, build(variant, dev.retries, cfg, chip, env), env)

BusReset ==
  \E env \in ResetEnvs \cup SlowResetEnvs \cup FaultEnvs(2) :
    BridgeDo("bus_reset", 0, bus_reset(variant, Armed(Context(0), env), env), env)

OnewireWait ==
  \E env \in BusyEnvs \cup FaultEnvs(2) :
    BridgeDo("onewire_wait", 0, onewire_wait(variant, Armed(Context(0), env), env), env)

ConfigWrite ==
  \E cfg \in Configs, env \in WaitEnvs \cup FaultEnvs(3) :
    BridgeDo("config_write", cfg,
             config_write(variant, Armed(Context(cfg), env), env), env)

StatusWrite ==
  \E env \in FaultEnvs(1) :
    BridgeDo("status_write", 0, status_write(Armed(Context(0), env)), env)

GetStatus ==
  \E env \in WaitEnvs \cup FaultEnvs(1) :
    BridgeDo("get_status", 0, get_status(variant, Armed(Context(0), env), env), env)

SetOverdriveMode ==
  \E enable \in BOOLEAN :
    \E env \in LineEnvs \cup FaultEnvs(IF enable THEN 17 ELSE 9) :
    BridgeDo("set_overdrive_mode", IF enable THEN 1 ELSE 0,
             set_overdrive_mode(variant, Armed(Context(0), env), enable, env), env)

GetOverdriveMode ==
  \E env \in FaultEnvs(1) :
    BridgeDo("get_overdrive_mode", 0, get_overdrive_mode(Armed(Context(0), env)), env)

\* the 1-Wire primitives of the bridge
OnewireReset ==
  \E env \in LineEnvs \cup FaultEnvs(5) :
    BridgeDo("reset", 0, onewire_reset(variant, Armed(Context(0), env), env), env)

WriteByte ==
  \E env \in WaitEnvs \cup FaultEnvs(3) :
    BridgeDo("write_byte", ONEWIRE_SKIP_ROM_CMD_OD,
             write_byte(variant, Armed(Context(0), env), ONEWIRE_SKIP_ROM_CMD_OD, env),
             env)

ReadByte ==
  \E env \in WaitEnvs \cup FaultEnvs(6) :
    BridgeDo("read_byte", 0, read_byte(variant, Armed(Context(0), env), env), env)

\* level: what the devices put on the line during the time slot
WriteBit ==
  \E bit \in BOOLEAN, level \in BOOLEAN, env \in WaitEnvs \cup FaultEnvs(3) :
    BridgeDo("write_bit", IF bit THEN 1 ELSE 0,
             write_bit(variant, Armed(Context(0), env), bit, env, level), env)

ReadBit ==
  \E level \in BOOLEAN, env \in WaitEnvs \cup FaultEnvs(5) :
    BridgeDo("read_bit", IF level THEN 1 ELSE 0,
             read_bit(variant, Armed(Context(0), env), env, level), env)

\* the search is at a position whose navigation direction is dir; the
\* method of the bridge has no parameter to take it
ReadTriplet ==
  \E dir \in BOOLEAN, env \in WaitEnvs \cup FaultEnvs(5) :
    BridgeDo("read_triplet", IF dir THEN 1 ELSE 0,
             read_triplet(variant, Armed(Context(0), env), env), env)

BridgeNext ==
  \/ Build \/ BusReset \/ OnewireWait \/ ConfigWrite \/ StatusWrite \/ GetStatus
  \/ SetOverdriveMode \/ GetOverdriveMode
  \/ OnewireReset \/ WriteByte \/ ReadByte \/ WriteBit \/ ReadBit \/ ReadTriplet

BridgeSpec == BridgeInit /\ [][BridgeNext]_vars

(***************************************************************************)
(* The polls under any retry budget with_retries() takes.                  *)
(***************************************************************************)
\* the budgets: the low ones and the ones next to u8::MAX
RetryBudgets == { 0, 1, 2, 3, 252, 253, 254, 255 }

RetryInit ==
  /\ variant \in {"blocking", "async"}
  /\ dev \in [retries : RetryBudgets, reset : {FALSE}, overdrive : {FALSE}]
  /\ chip = ChipAfterReset(TRUE)
  /\ i2c_log = << >>
  /\ lastCall = NoCall
  /\ SearchParked
  /\ LibParked
  /\ CrcParked
  /\ PortParked
  /\ GroupParked

\* `tries += 1` at 255: a panic in a build with overflow checks; without
\* them tries is 0 again, and the loop goes on as it began
overflow_outcome(x, checks) ==
  IF x.r.tag = "Overflow"
  THEN [x EXCEPT !.r = [tag |-> IF checks THEN "Panic" ELSE "Diverges", val |-> "tries"]]
  ELSE x

PollForFree ==
  \E env \in BusyEnvs, checks \in BOOLEAN :
    BridgeDo("onewire_wait", 0,
             overflow_outcome(onewire_wait(variant, Armed(Context(0), env), env), checks),
             env)

PollForRst ==
  \E env \in ResetEnvs \cup SlowResetEnvs, checks \in BOOLEAN :
    BridgeDo("bus_reset", 0,
             overflow_outcome(bus_reset(variant, Armed(Context(0), env), env), checks),
             env)

RetryNext == PollForFree \/ PollForRst

RetrySpec == RetryInit /\ [][RetryNext]_vars

(***************************************************************************)
(* OneWirePortConfiguration on the handle: an object is built, written to  *)
(* the chip and read from it.                                              *)
(***************************************************************************)
\* the objects the callers build
PortConfigs ==
  { OneWirePortConfiguration_default,
    reset_pulse(OneWirePortConfiguration_default, 600000, 60000),
    write_zero_recovery_time(
      weak_pullup_resistor(OneWirePortConfiguration_default, 500), 1025),
    from_bytes([i \in 1..8 |-> 255]) }

\* a call on the handle with the port configuration object
PortContext ==
  [r |-> Ok(0), reset |-> dev.reset, log |-> << >>, fail_at |-> 0,
   status |-> 0, overdrive |-> dev.overdrive, tries |-> 0,
   retries |-> dev.retries, chip |-> chip, polls |-> 0,
   line_busy |-> FALSE, config |-> 0,
   port |-> port, port_reg |-> port_reg]

PortDo(op, x, env) ==
  /\ BridgeCall(op, port, x, env)
  /\ port' = x.port
  /\ port_reg' = x.port_reg

\* the caller makes another object
PortBuild ==
  \E cfg \in PortConfigs :
    /\ port' = cfg
    /\ lastCall' = [NoCall EXCEPT !.op = "port_build"]
    /\ i2c_log' = << >>
    /\ UNCHANGED << variant, svars, dev, chip, lvars, cvars, port_reg, gvars >>

PortWrite ==
  \E env \in BusyEnvs \cup FaultEnvs(4) :
    PortDo("port_write", port_write(variant, Armed(PortContext, env), env), env)

PortRead ==
  \E env \in WaitEnvs \cup FaultEnvs(1) :
    PortDo("port_read", port_read(Armed(PortContext, env)), env)

PortNext == PortBuild \/ PortWrite \/ PortRead

PortSpec == BridgeInit /\ [][PortNext]_vars

(***************************************************************************)
(* The configuration codec and address() as a state machine.               *)
(***************************************************************************)
LibInit ==
  /\ variant \in {"blocking", "async"}
  /\ SearchParked
  /\ BridgeParked
  /\ LibParked
  /\ CrcParked
  /\ PortParked
  /\ GroupParked

LibDo(op, arg, fail_at, r) ==
  /\ libCall' = [r |-> r, op |-> op, fail_at |-> fail_at, arg |-> arg]
  /\ UNCHANGED << variant, svars, bvars, gvars >>

\* a call on the configuration object or of address()
ConfDo(op, arg, fail_at, r) ==
  /\ LibDo(op, arg, fail_at, r)
  /\ UNCHANGED << cvars, pvars >>

\* DeviceConfiguration::from(byte)
FromBits ==
  \E byte \in 0..255 :
    /\ conf' = from_bits(byte)
    /\ ConfDo("from_bits", byte, 0, Ok(0))
    /\ UNCHANGED << od, wire >>

\* one of the setters of the four flags
SetFlag ==
  \E mask \in {1, 2, 4, 8}, value \in BOOLEAN :
    /\ conf' = with_flag(conf, mask, value)
    /\ ConfDo("set_flag", mask, 0, Ok(0))
    /\ UNCHANGED << od, wire >>

\* cfg_to_u8 of the object, and the object made from that byte
Encode ==
  /\ conf' = from_bits(cfg_to_u8(conf))
  /\ ConfDo("encode", conf, 0, Ok(cfg_to_u8(conf)))
  /\ UNCHANGED << od, wire >>

\* the transport changes speed
SetTransportSpeed ==
  /\ od' = ~od
  /\ ConfDo("set_overdrive_mode", 0, 0, Ok(0))
  /\ UNCHANGED << conf, wire >>

AddressDo(w, target, fail_at) ==
  /\ wire' = w.calls
  /\ ConfDo("address", target, fail_at, w.r)
  /\ UNCHANGED << conf, od >>

Address ==
  \E target \in {None} \cup { Some(c) : c \in VerifyCodes }, fail_at \in 0..11 :
    AddressDo(address(od, target, fail_at), target, fail_at)

CodecNext == FromBits \/ SetFlag \/ Encode

CodecSpec == LibInit /\ [][CodecNext]_vars

AddressNext == SetTransportSpeed \/ Address

AddressSpec == LibInit /\ [][AddressNext]_vars

(***************************************************************************)
(* DeviceStatus as a state machine: a Status byte is decoded.              *)
(***************************************************************************)
DecodeStatus ==
  \E status \in 0..255 :
    /\ ConfDo("status", status, 0, Ok(status_from_bits(status)))
    /\ UNCHANGED lvars_but_call

StatusNext == DecodeStatus

StatusSpec == LibInit /\ [][StatusNext]_vars

(***************************************************************************)
(* OneWireConfigurationBuilder as a state machine: the methods are called  *)
(* in a chain on the builder made from the default configuration.          *)
(***************************************************************************)
\* the longest chain of builder calls
MaxBuilderCalls == 2

\* the calls made on the builder so far
Chain == IF libCall.op = "none" THEN 0 ELSE libCall.arg.n

\* requested values around the entries of a table: below it, an entry, between
\* two entries, the last entry, above it
Requests(table) == { 0, table[1], table[4] + 1, table[16], table[16] + 1 }

Resistances == { 0, 500, 600, 999, 1000, 1500 }

\* one builder method: cfg is what it leaves in self.cfg
BuilderDo(op, normal, overdrive, cfg) ==
  /\ Chain < MaxBuilderCalls
  /\ port' = cfg
  /\ LibDo(op, [n |-> Chain + 1, cfg |-> port, normal |-> normal,
                overdrive |-> overdrive], 0, Ok(cfg))
  /\ UNCHANGED << lvars_but_call, cvars, port_reg >>

ResetPulse ==
  \E normal \in Requests(reset_pulse_NORMAL),
     overdrive \in Requests(reset_pulse_OVERDRIVE) :
    BuilderDo("reset_pulse", normal, overdrive, reset_pulse(port, normal, overdrive))

PresenceDetectTime ==
  \E normal \in Requests(presence_detect_time_NORMAL),
     overdrive \in Requests(presence_detect_time_OVERDRIVE) :
    BuilderDo("presence_detect_time", normal, overdrive,
              presence_detect_time(port, normal, overdrive))

WriteZeroLowTime ==
  \E normal \in Requests(write_zero_low_time_NORMAL),
     overdrive \in Requests(write_zero_low_time_OVERDRIVE) :
    BuilderDo("write_zero_low_time", normal, overdrive,
              write_zero_low_time(port, normal, overdrive))

WriteZeroRecoveryTime ==
  \E value \in Requests(write_zero_recovery_time_VALUES) :
    BuilderDo("write_zero_recovery_time", value, value,
              write_zero_recovery_time(port, value))

WeakPullupResistor ==
  \E value \in Resistances :
    BuilderDo("weak_pullup_resistor", value, value, weak_pullup_resistor(port, value))

\* the builder methods
BuilderMethods ==
  { "reset_pulse", "presence_detect_time", "write_zero_low_time",
    "write_zero_recovery_time", "weak_pullup_resistor" }

\* build(), then the getters of what was built; the request of the last
\* method is kept beside the readings
ReadTimes ==
  /\ libCall.op \in BuilderMethods
  /\ LibDo("getters",
           [n |-> libCall.arg.n, cfg |-> libCall.arg.cfg,
            normal |-> libCall.arg.normal, overdrive |-> libCall.arg.overdrive,
            method |-> libCall.op],
           0, Ok(times(port)))
  /\ UNCHANGED << lvars_but_call, cvars, pvars >>

TimingNext ==
  \/ ResetPulse
  \/ PresenceDetectTime
  \/ WriteZeroLowTime
  \/ WriteZeroRecoveryTime
  \/ WeakPullupResistor
  \/ ReadTimes

TimingSpec == LibInit /\ [][TimingNext]_vars

(***************************************************************************)
(* OneWireCrc as a state machine: bytes are fed to two accumulators, one   *)
(* through update_calc and one through update_table; validate() is called  *)
(* on a sequence.                                                          *)
(***************************************************************************)
\* the length of a ROM code without its CRC byte
PrefixLen == 7

\* the bytes fed when a whole prefix is built
CrcBytes == {0, 255}

\* how many arbitrary bytes are fed when every byte value is tried
PairLen == 2

CrcInit ==
  /\ variant = "blocking"
  /\ SearchParked
  /\ BridgeParked
  /\ LibParked
  /\ CrcParked
  /\ PortParked
  /\ GroupParked

\* crc.update(byte) on both objects
UpdateDo(byte) ==
  /\ crc' = update(crc, byte)
  /\ crc_table' = update_table(crc_table, byte)
  /\ sequence' = Append(sequence, byte)
  /\ LibDo("update", byte, 0, Ok(0))
  /\ UNCHANGED << lvars_but_call, pvars >>

Update ==
  /\ libCall.op # "validate"
  /\ Len(sequence) < PrefixLen
  /\ \E byte \in CrcBytes : UpdateDo(byte)

UpdateAny ==
  /\ Len(sequence) < PairLen
  /\ \E byte \in 0..255 : UpdateDo(byte)

\* bit k (0..7) of byte i of seq flipped
FlipBit(seq, i, k) == [seq EXCEPT ![i] = Xor8(@, 2 ^ k)]

\* the sequences validate() is called with: the bytes fed, the bytes fed
\* followed by the accumulator, and that with one bit flipped
Candidates ==
  { sequence, Append(sequence, crc) }
    \cup { FlipBit(Append(sequence, crc), i, k) : i \in 1..(Len(sequence) + 1), k \in 0..7 }

\* OneWireCrc::validate(seq); it works on an accumulator of its own
Validate ==
  /\ libCall.op # "validate"
  /\ Len(sequence) = PrefixLen
  /\ \E seq \in Candidates :
       /\ sequence' = seq
       /\ LibDo("validate", sequence, 0, Ok(validate(seq)))
       /\ UNCHANGED << crc, crc_table, lvars_but_call, pvars >>

CrcNext == Update \/ Validate

CrcSpec == CrcInit /\ [][CrcNext]_vars

TableNext == UpdateAny

TableSpec == CrcInit /\ [][TableNext]_vars

(***************************************************************************)
(* Ds28ea00Group<N> (ds28ea00-rs): enumerate() fills the array roms of     *)
(* length N from a family search on the bus.  roms[i] of the source is     *)
(* roms[i + 1] here.                                                       *)
(***************************************************************************)
Ds28ea00Group_family == 66

\* the largest N
MaxGroup == 3

\* Ds28ea00Group::<N>::new()
Ds28ea00Group_new(N) == [N |-> N, devices |-> 0, roms |-> [i \in 1..N |-> 0]]

\* sensors, and a device of another family
Sensors == { MkRom(Ds28ea00Group_family, SerialA), MkRom(Ds28ea00Group_family, SerialB) }

GroupBuses ==
  { {}, {MkRom(40, SerialA)} }
    \cup { devs \cup other : devs \in (SUBSET Sensors) \ {{}},
                              other \in { {}, {MkRom(16, SerialA)} } }

\* what goes wrong on the bus during a call: nothing, the reset of the
\* search, a write after the search
GroupFaults == { "none", "search", "configure" }

\* a call of enumerate at work: the group, the search, what next() returned
\* and the stores made so far, and the result
EnumerateStart(g) ==
  [r |-> Ok(0), s |-> with_family(Ds28ea00Group_family), stores |-> << >>,
   returned |-> << >>, g |-> g, looping |-> TRUE]

\* self.roms[self.devices] = rom; self.devices += 1; the index is checked
\* against the length of the array
store(e, code) ==
  IF e.g.devices >= e.g.N
  THEN [e EXCEPT !.stores = Append(@, [rom |-> code, index |-> e.g.devices]),
                 !.r = [tag |-> "Panic", val |-> "index out of bounds"],
                 !.looping = FALSE]
  ELSE [e EXCEPT !.stores = Append(@, [rom |-> code, index |-> e.g.devices]),
                 !.g.roms[e.g.devices + 1] = code,
                 !.g.devices = @ + 1,
                 !.looping = (e.g.devices + 1 # e.g.N)]

\* while let Some(rom) = search.next()? { ... }; n is what next() did
enumerate_found(e, n) ==
  IF n.r.tag = "Err" THEN [e EXCEPT !.s = n.s, !.r = n.r, !.looping = FALSE]
  ELSE IF n.r.tag = "None" THEN [e EXCEPT !.s = n.s, !.looping = FALSE]
  ELSE store([e EXCEPT !.s = n.s, !.returned = Append(@, n.r.val)], n.r.val)

RECURSIVE enumerate_search(_, _, _)
enumerate_search(e, devs, fault) ==
  IF ~e.looping THEN e
  ELSE enumerate_search(
         enumerate_found(e, next("blocking", FALSE, e.s, devs,
                                 IF fault = "search"
                                 THEN [kind |-> "reset_err", at |-> 0] ELSE NoFault)),
         devs, fault)

\* the configuration of the sensors after the search, and Ok(self.devices)
enumerate_configure(e, fault) ==
  IF e.r.tag # "Ok" THEN e
  ELSE IF fault = "configure" THEN [e EXCEPT !.r = Err("Other")]
  ELSE [e EXCEPT !.r = Ok(e.g.devices)]

enumerate(g, devs, fault) ==
  enumerate_configure(enumerate_search(EnumerateStart(g), devs, fault), fault)

GroupInit ==
  /\ variant = "blocking"
  /\ group \in { Ds28ea00Group_new(N) : N \in 1..MaxGroup }
  /\ groupCall = NoGroupCall
  /\ SearchParked
  /\ BridgeParked
  /\ LibParked
  /\ CrcParked
  /\ PortParked

GroupDo(e, devs) ==
  /\ group' = e.g
  /\ groupCall' = [r |-> e.r, op |-> "enumerate", bus |-> devs, stores |-> e.stores,
                   returned |-> e.returned]
  /\ UNCHANGED << variant, svars, bvars, lvars, cvars, pvars >>

Enumerate ==
  \E devs \in GroupBuses, fault \in GroupFaults :
    GroupDo(enumerate(group, devs, fault), devs)

GroupNext == Enumerate

GroupSpec == GroupInit /\ [][GroupNext]_vars

(***************************************************************************)
(* Properties of the search.                                               *)
(***************************************************************************)
\* every device on the bus has a valid ROM code, and there is one at least
ValidBus == bus # {} /\ \A d \in bus : ValidRom(d)

\* only next() was called since construction, and nothing failed
FreshRun == clean /\ origin = "new"

Elems(seq) == { seq[i] : i \in 1..Len(seq) }

NoRepeat(seq) == \A i, j \in 1..Len(seq) : i # j => seq[i] # seq[j]

\* a has 0 and b has 1 at the first bit position where the two codes differ
Before(a, b) ==
  \E n \in 1..64 :
    /\ ~RomBit(a, n)
    /\ RomBit(b, n)
    /\ \A m \in 1..(n - 1) : RomBit(a, m) = RomBit(b, m)

\* the place of device d in the order of the bits
Rank(d, devs) == Cardinality({ e \in devs : Before(e, d) }) + 1

\* the codes of the devices the family filter lets through
FilterCodes == Codes({ d \in bus : family = 0 \/ d[1] = family })

\* the state of a search just constructed or reset
InitialState ==
  /\ last_discrepancy = 0
  /\ ~last_device
  /\ rom = << family, 0, 0, 0, 0, 0, 0, 0 >>

\* N devices, no filter: each call returns a new code until all N are
\* returned; from then on the calls return None
Completeness(v) ==
  (variant = v /\ FreshRun /\ family = 0 /\ ValidBus) =>
    /\ NoRepeat(found)
    /\ Elems(found) \subseteq Codes(bus)
    /\ Len(found) = (IF calls < Cardinality(bus) THEN calls ELSE Cardinality(bus))
    /\ calls > Cardinality(bus) => lastRes = None

\* C1: blocking search completeness: on a bus of N >= 1 distinct valid
\* devices and without a family filter, repeated OneWireSearch::next() calls
\* from a fresh search return each code exactly once, and the call after the
\* N-th result returns None.
C1_BlockingCompleteness == Completeness("blocking")

\* C2: suspending search completeness: on a bus of N >= 1 distinct valid
\* devices and without a family filter, repeated OneWireSearchAsync::next()
\* calls on the path without triplet return each code exactly once and then
\* None; the search is exhausted after N calls.
C2_AsyncCompleteness ==
  /\ Completeness("async")
  /\ (variant = "async" /\ FreshRun /\ family = 0 /\ ValidBus) =>
       (last_device <=> calls >= Cardinality(bus))

C2_Witness ==
  /\ variant = "async" /\ FreshRun /\ family = 0 /\ ValidBus
  /\ Cardinality(bus) = 3
  /\ calls = 4
  /\ Len(found) = 3
  /\ lastRes = None

C4_FamilyFilter ==
  (family # 0 /\ lastOp = "next" /\ lastRes.tag = "Some") =>
    lastRes.val[1] % 256 = family

C4_Witness ==
  /\ family # 0
  /\ lastOp = "next"
  /\ lastRes.tag = "Some"
  /\ \E d \in bus : ValidRom(d) /\ d[1] # family

\* C5: with a family filter, a pass that finds a device of another family
\* returns None without ending the scan: the search is not exhausted while
\* branches remain, and by the time one pass per device has run every
\* device of the filter family has been returned.
C5_FilterContinues ==
  (FreshRun /\ family # 0 /\ ValidBus) =>
    /\ (lastOp = "next" /\ lastPass = "done" /\ rom[1] # family) => lastRes = None
    /\ calls < Cardinality(bus) => ~last_device
    /\ (last_device \/ calls >= Cardinality(bus)) => FilterCodes \subseteq Elems(found)

\* C6: verify(rom) over a bus of valid devices returns true exactly when
\* rom is the code of a device the search discovers, and leaves the search
\* in its initial state, so that the next next() returns the first device
\* again.
C6_Verify ==
  ValidBus =>
    /\ (lastOp = "verify" /\ lastRes.tag = "Ok") =>
         /\ lastRes.val = (lastArg \in FilterCodes)
         /\ InitialState
    /\ (origin = "verify" /\ clean /\ family = 0 /\ calls >= 1) =>
         /\ Len(found) >= 1
         /\ Rank(to_le_bytes(found[1]), bus) = 1

C6_Witness ==
  /\ ValidBus
  /\ lastOp = "verify"
  /\ preExhausted
  /\ lastRes = Ok(TRUE)

\* C7: verify(rom) leaves the search state reset on every outcome, also
\* when the inner next() fails: last_discrepancy = 0, last_device = false,
\* ROM buffer cleared.
C7_VerifyAlwaysResets == lastOp = "verify" => InitialState

\* C8: every code returned as Some by next() has a non-zero family byte and
\* CRC-8 zero over its 8 bytes; a completed pass with family byte zero
\* yields None, one with non-zero family byte and non-zero CRC fails with
\* InvalidCrc.
C8_ValidCodes ==
  lastOp = "next" =>
    /\ lastRes.tag = "Some" => ValidRom(to_le_bytes(lastRes.val))
    /\ (lastPass = "done" /\ rom[1] = 0) => lastRes = None
    /\ (lastPass = "done" /\ rom[1] # 0 /\ ~validate(rom)) => lastRes = Err("InvalidCrc")

C8_Witness ==
  /\ lastOp = "next"
  /\ lastPass = "done"
  /\ lastRes = Err("InvalidCrc")

\* C18: next() while the transport is in overdrive mode fails with
\* BusInvalidSpeed, and next() on an exhausted search returns None; in both
\* cases no call is made on the bus and the search state is unchanged, so an
\* exhausted search stays exhausted until verify() is called.
C18_SearchGuards ==
  [][ lastOp' = "next" =>
        /\ lastFault'.kind = "overdrive" =>
             /\ lastRes' = Err("BusInvalidSpeed")
             /\ lastOps' = NoOps
             /\ SearchState' = SearchState
        /\ (lastFault'.kind # "overdrive" /\ last_device) =>
             /\ lastRes' = None
             /\ lastOps' = NoOps
             /\ SearchState' = SearchState
        /\ last_device => last_device' ]_vars

\* a second next() on an exhausted search
C18_Witness ==
  /\ lastOp = "next"
  /\ preExhausted
  /\ last_device
  /\ lastFault = NoFault
  /\ lastRes = None
  /\ lastOps = NoOps
  /\ Len(found) >= 1

\* two calls of next() that return the same and leave the same state
SameOutcome(a, b) == a.r = b.r /\ a.s = b.s

\* C20: when read_triplet answers Unimplemented the search does not fail:
\* it makes two read_bit calls and one write_bit call for each of the 64
\* positions and returns what it returns on a transport that implements
\* the triplet; another read_triplet error ends the pass with that error.
C20_TripletFallback ==
  /\ (lastOp = "next" /\ ~triplet /\ lastFault = NoFault /\ lastOps.read_triplet > 0) =>
       /\ lastRes # Err("Unimplemented")
       /\ lastPass = "done" =>
            /\ lastOps.read_triplet = 64
            /\ lastOps.read_bit = 128
            /\ lastOps.write_bit = 64
  /\ (variant = "blocking" /\ ~triplet) =>
       SameOutcome(next(variant, FALSE, SearchState, bus, NoFault),
                   next(variant, TRUE, SearchState, bus, NoFault))
  /\ (lastOp = "next" /\ triplet /\ lastFault.kind = "bit_err" /\ lastOps.read_triplet > 0) =>
       /\ lastRes = Err("Other")
       /\ lastOps.read_triplet = lastFault.at
       /\ lastOps.read_bit = 0

\* the bus operations of a call: read_triplet answering Unimplemented is
\* no bus operation
BusOps(ops) == [ops EXCEPT !.read_triplet = 0]

\* two calls that return the same, leave the same state and made the same
\* bus operations
SameCall(a, b) == a.r = b.r /\ a.s = b.s /\ BusOps(a.ops) = BusOps(b.ops)

\* C21: on a transport without triplet and with the same bus responses,
\* OneWireSearch and OneWireSearchAsync return the same from every next()
\* and verify(), make the same bus operations and hold the same search
\* state afterwards.
C21_VariantsAgree ==
  /\ \A fault \in Faults :
       SameCall(next("blocking", FALSE, SearchState, bus, fault),
                next("async", FALSE, SearchState, bus, fault))
  /\ \A code \in VerifyCodes :
       SameCall(verify("blocking", FALSE, SearchState, bus, code, NoFault),
                verify("async", FALSE, SearchState, bus, code, NoFault))

(***************************************************************************)
(* Properties of the bridge.                                               *)
(***************************************************************************)
\* the Configuration writes among the transfers of the last call
ConfigWrites ==
  { i \in 1..Len(i2c_log) :
      i2c_log[i].op = "write_read" /\ i2c_log[i].bytes[1] = CONFIG_WRITE_ADDR }

\* C9: busy-wait bound: when every Status read shows busy, onewire_wait of
\* either variant fails with RetriesExceeded after exactly `retries` polls;
\* it never returns Ok while the last Status read showed busy.
C9_BusyWaitBound ==
  lastCall.op = "onewire_wait" =>
    /\ lastCall.always =>
         /\ lastCall.r = Err("RetriesExceeded")
         /\ lastCall.polls = dev.retries
    /\ lastCall.r.tag = "Ok" => ~lastCall.line_busy

\* C10: every Configuration write on the I2C bus is 0xD2 followed by a byte
\* whose high nibble is the complement of its low nibble (the flags), in
\* both variants, at construction and in the overdrive transitions.
C10_ConfigWriteEncoding ==
  \A i \in ConfigWrites :
    /\ Len(i2c_log[i].bytes) = 2
    /\ i2c_log[i].bytes[2] \div 16 = 15 - (i2c_log[i].bytes[2] % 16)

\* the line is free, the chip shows RST after a Device Reset, no transfer fails
QuietEnv == Env(FALSE, 0, TRUE, FALSE, TRUE, 0)

\* C12: bridge construction: build() with the default configuration against
\* a bridge whose Status reads 0x10 succeeds and issues exactly Device Reset
\* 0xF0, one Status read, the pointer select 0xE1,0xF0 with one read, and
\* the Configuration write 0xD2,0xF0 with its read-back; the handle has the
\* reset flag cleared and overdrive false; a DeviceStatus write issues no I2C
\* transaction.
C12_BuildSequence ==
  /\ (lastCall.op = "build" /\ lastCall.arg = DeviceConfiguration_new
        /\ lastCall.env = QuietEnv) =>
       /\ lastCall.r.tag = "Ok"
       /\ i2c_log = << Write(<< DEVICE_RST_CMD >>), Read,
                       Write(<< READ_PTR_CMD, DEVICE_STATUS_PTR >>), Read,
                       WriteRead(<< CONFIG_WRITE_ADDR, 240 >>) >>
       /\ ~dev.reset
       /\ ~dev.overdrive
  /\ lastCall.op = "status_write" =>
       /\ lastCall.r.tag = "Ok"
       /\ i2c_log = << >>

\* the transfers of the last call that are commands: not the pointer
\* selects, the Status reads and the Configuration read of the polling
IsCommand(t) == IF t.op = "read" THEN FALSE ELSE t.bytes[1] # READ_PTR_CMD

StepOf(t) ==
  IF t.bytes = << ONEWIRE_RESET_CMD >> THEN "reset"
  ELSE IF t.bytes = << ONEWIRE_WRITE_BYTE, ONEWIRE_SKIP_ROM_CMD_OD >> THEN "skip_rom_od"
  ELSE IF t.bytes[1] = CONFIG_WRITE_ADDR
  THEN (IF Bit(t.bytes[2], 8) THEN "config_fast" ELSE "config_slow")
  ELSE "other"

Steps(log) == [i \in 1..Len(SelectSeq(log, IsCommand)) |-> StepOf(SelectSeq(log, IsCommand)[i])]

IsPrefix(s, t) == Len(s) <= Len(t) /\ \A i \in 1..Len(s) : s[i] = t[i]

EnableSteps == << "reset", "skip_rom_od", "config_fast", "reset" >>

\* the transfers of the last call up to the first Configuration write
UpToConfigWrite ==
  IF ConfigWrites = {} THEN Len(i2c_log) + 1
  ELSE CHOOSE i \in ConfigWrites : \A j \in ConfigWrites : i <= j

Primitives ==
  { "reset", "write_byte", "read_byte", "write_bit", "read_bit", "read_triplet" }

\* C16: in both variants each 1-Wire primitive called while the
\* device-has-been-reset flag is set fails with BusUninitialized and issues
\* no I2C transaction; a successful Configuration write clears the flag.
C16_UninitializedBus ==
  /\ (lastCall.op \in Primitives /\ lastCall.pre.reset) =>
       /\ lastCall.r = Err("BusUninitialized")
       /\ i2c_log = << >>
       /\ dev.reset
  /\ (lastCall.op = "config_write" /\ lastCall.r.tag = "Ok") => ~dev.reset

C19_TransportErrors ==
  /\ (lastCall.env.fail_at # 0 /\ Len(i2c_log) >= lastCall.env.fail_at) =>
       /\ lastCall.r = Err("I2c")
       /\ Len(i2c_log) = lastCall.env.fail_at
  /\ lastCall.r = Err("I2c") => Len(i2c_log) = lastCall.env.fail_at

\* a Status read inside the second busy-poll of reset() fails
C19_Witness ==
  /\ lastCall.op = "reset"
  /\ lastCall.env.fail_at = 5
  /\ Len(i2c_log) = 5
  /\ i2c_log[5] = Read
  /\ i2c_log[3] = Write(<< ONEWIRE_RESET_CMD >>)
  /\ lastCall.r = Err("I2c")

(***************************************************************************)
(* Properties of the configuration codec and of address().                 *)
(***************************************************************************)
\* the four flags held in the low nibble of a byte
NibbleFlags(byte) ==
  [active_pullup |-> (byte % 2) = 1, power_down_1wire |-> ((byte \div 2) % 2) = 1,
   strong_pullup |-> ((byte \div 4) % 2) = 1, onewire_speed |-> ((byte \div 8) % 2) = 1]

\* C11: configuration codec round trip: encoding with cfg_to_u8 and decoding
\* the byte gives back the four flags of the low nibble; the encoded byte
\* has the complement of its low nibble in its high nibble; all flags false
\* encode to 0xF0, and 0xF0 decodes to all flags false.
C11_ConfigCodecRoundTrip ==
  libCall.op = "encode" =>
    /\ flags(conf) = NibbleFlags(libCall.arg)
    /\ libCall.r.val % 16 = libCall.arg % 16
    /\ libCall.r.val \div 16 = 15 - (libCall.r.val % 16)
    /\ (libCall.arg % 16 = 0) => libCall.r.val = 240
    /\ (libCall.r.val = 240) =>
         flags(conf) = [active_pullup |-> FALSE, power_down_1wire |-> FALSE,
                        strong_pullup |-> FALSE, onewire_speed |-> FALSE]

C11_Witness ==
  /\ libCall.op = "encode"
  /\ libCall.arg % 16 = 11
  /\ libCall.r.val = 75

\* byte i (1..8) of a code, least significant first
CodeByte(code, i) ==
  IF i % 2 = 1 THEN code[(i + 1) \div 2] % 256 ELSE code[i \div 2] \div 256

\* the calls address() makes when nothing fails
AddressCalls(speed, target) ==
  << TransportCall("get_overdrive_mode", 0), TransportCall("reset", 0),
     TransportCall("write_byte",
                   IF target.tag = "Some" THEN (IF speed THEN 105 ELSE 85)
                   ELSE (IF speed THEN 60 ELSE 204)) >>
  \o (IF target.tag = "Some"
      THEN [i \in 1..8 |-> TransportCall("write_byte", CodeByte(target.val, i))]
      ELSE << >>)

\* C15: address(rom) resets the bus, writes one ROM command byte (Skip-ROM
\* 0xCC or 0x3C in overdrive without a code, Match-ROM 0x55 or 0x69 in
\* overdrive with one) and then, only with a code, its 8 bytes least
\* significant first; a failing call ends it with that error and nothing
\* more is written.
C15_Address ==
  libCall.op = "address" =>
    IF libCall.fail_at \in 1..Len(AddressCalls(od, libCall.arg))
    THEN /\ libCall.r.tag = "Err"
         /\ wire = SubSeq(AddressCalls(od, libCall.arg), 1, libCall.fail_at)
    ELSE /\ libCall.r.tag = "Ok"
         /\ wire = AddressCalls(od, libCall.arg)

C15_Witness ==
  /\ libCall.op = "address"
  /\ od
  /\ libCall.arg.tag = "Some"
  /\ libCall.fail_at = 0
  /\ Len(wire) = 11
  /\ wire[3].byte = 105
  /\ wire[4].byte = 40

(***************************************************************************)
(* Properties of OneWireCrc.                                               *)
(***************************************************************************)
\* the bits in which two sequences of the same length differ
DifferingBits(a, b) ==
  { p \in (1..Len(a)) \X (0..7) : Bit(a[p[1]], 2 ^ p[2]) # Bit(b[p[1]], 2 ^ p[2]) }

\* C22: for a 7-byte prefix, the prefix followed by the accumulator over it
\* (seed 0) validates, that sequence with any one bit flipped does not, and
\* validate is true exactly when the accumulator over all bytes is 0.
C22_CrcRoundTrip ==
  libCall.op = "validate" =>
    /\ crc = CrcOver(0, libCall.arg, 1)
    /\ libCall.r.val = (CrcOver(0, sequence, 1) = 0)
    /\ sequence = Append(libCall.arg, crc) => libCall.r.val
    /\ (Len(sequence) = Len(libCall.arg) + 1
          /\ Cardinality(DifferingBits(sequence, Append(libCall.arg, crc))) = 1) =>
         ~libCall.r.val

\* a bit of the family byte of a sealed code was flipped
C22_Witness ==
  /\ libCall.op = "validate"
  /\ libCall.arg = << 0, 255, 0, 0, 255, 0, 255 >>
  /\ Len(sequence) = 8
  /\ DifferingBits(sequence, Append(libCall.arg, crc)) = { << 1, 3 >> }
  /\ libCall.r = Ok(FALSE)

\* C23: the table-driven update and the bitwise update give the same
\* accumulator for every pair (accumulator, byte), hence over any sequence.
C23_TableMatchesBitwise ==
  /\ crc = crc_table
  /\ libCall.op = "update" =>
       /\ crc = CrcOver(0, sequence, 1)
       /\ \A byte \in CrcBytes : update_table(crc, byte) = update_calc(crc, byte)

\* accumulator 0x8C (after byte 0x80) fed byte 0xFF
C23_Witness ==
  /\ sequence = << 128, 255 >>
  /\ libCall.op = "update"
  /\ crc_table = update_calc(140, 255)

(***************************************************************************)
(* Properties of DeviceStatus.                                             *)
(***************************************************************************)
\* the weight of a flag in a byte
Weight(flag, k) == IF flag THEN 2 ^ k ELSE 0

\* C24: the Status byte decodes bit for bit: bit 0 busy, bit 1 presence
\* pulse, bit 2 short, bit 3 logic level, bit 4 device reset, bit 5
\* single-bit result, bit 6 triplet second bit, bit 7 branch direction; the
\* byte 0x10 decodes to device_reset alone.
C24_StatusDecode ==
  libCall.op = "status" =>
    /\ libCall.arg =
           Weight(libCall.r.val.onewire_busy, 0)
         + Weight(libCall.r.val.present_pulse_detect, 1)
         + Weight(libCall.r.val.short_detect, 2)
         + Weight(libCall.r.val.logic_level, 3)
         + Weight(libCall.r.val.device_reset, 4)
         + Weight(libCall.r.val.single_bit_result, 5)
         + Weight(libCall.r.val.triplet_second_bit, 6)
         + Weight(libCall.r.val.branch_dir_taken, 7)
    /\ libCall.arg = 16 =>
         \A f \in DOMAIN libCall.r.val : libCall.r.val[f] = (f = "device_reset")

\* the Status byte after a device reset
C24_Witness ==
  /\ libCall.op = "status"
  /\ libCall.arg = 16
  /\ libCall.r.val.device_reset
  /\ ~libCall.r.val.logic_level

(***************************************************************************)
(* Properties of OneWireConfigurationBuilder.                              *)
(***************************************************************************)
\* the resistance OneWirePortConfiguration::weak_pullup_resistor() reports
\* for each index
R_WPU == [i \in 1..16 |-> IF i - 1 < 6 THEN 500 ELSE 1000]

\* the smallest index of the table whose entry is >= value, 0 when there is none
Selected(table, value) ==
  IF \E i \in 1..16 : table[i] >= value
  THEN (CHOOSE i \in 1..16 :
          table[i] >= value /\ \A j \in 1..(i - 1) : table[j] < value) - 1
  ELSE 0

\* field f of the configuration holds the index selected for value under its
\* old tag
Stored(f, table, value) ==
  /\ port[f] % 16 = Selected(table, value)
  /\ port[f] \div 16 = libCall.arg.cfg[f] \div 16

\* the fields other than fs are as they were
Kept(fs) == \A f \in (DOMAIN port) \ fs : port[f] = libCall.arg.cfg[f]

\* the seven time parameters follow the selection policy
TimesSelected ==
  /\ libCall.op = "reset_pulse" =>
       /\ Stored("t_rstl", reset_pulse_NORMAL, libCall.arg.normal)
       /\ Stored("t_rstl_od", reset_pulse_OVERDRIVE, libCall.arg.overdrive)
       /\ Kept({"t_rstl", "t_rstl_od"})
  /\ libCall.op = "presence_detect_time" =>
       /\ Stored("t_msp", presence_detect_time_NORMAL, libCall.arg.normal)
       /\ Stored("t_msp_od", presence_detect_time_OVERDRIVE, libCall.arg.overdrive)
       /\ Kept({"t_msp", "t_msp_od"})
  /\ libCall.op = "write_zero_low_time" =>
       /\ Stored("t_w0l", write_zero_low_time_NORMAL, libCall.arg.normal)
       /\ Stored("t_w0l_od", write_zero_low_time_OVERDRIVE, libCall.arg.overdrive)
       /\ Kept({"t_w0l", "t_w0l_od"})
  /\ libCall.op = "write_zero_recovery_time" =>
       /\ Stored("t_rec0", write_zero_recovery_time_VALUES, libCall.arg.normal)
       /\ Kept({"t_rec0"})

\* C25: each builder method stores in the low nibble of its parameter the
\* smallest table index whose tabulated value is >= the requested value, and
\* index 0 when the request exceeds the table; the tag nibble and the other
\* parameters are left as they were.
C25_TimingSelection ==
  /\ TimesSelected
  /\ libCall.op = "weak_pullup_resistor" =>
       /\ Stored("r_wpu", R_WPU, libCall.arg.normal)
       /\ Kept({"r_wpu"})

(***************************************************************************)
(* Properties of OneWirePortConfiguration on the handle.                   *)
(***************************************************************************)
\* the parameters in the order of the frame, and their tags
PortFields ==
  << "t_rstl", "t_rstl_od", "t_msp", "t_msp_od", "t_w0l", "t_w0l_od", "t_rec0",
     "r_wpu" >>

PortTags == << 0, 1, 2, 3, 4, 5, 6, 8 >>

\* the transfers of a busy-poll with n Status reads
WaitLog(n) ==
  << Write(<< READ_PTR_CMD, DEVICE_STATUS_PTR >>) >> \o [i \in 1..n |-> Read]

\* C26: a successful port-timing write busy-polls, then sends one 9-byte
\* frame (0xC3 and the eight tagged parameter bytes in the fixed order), then
\* reads the 8-byte register; the object then holds the decode of the bytes
\* read back: the low nibble of each byte under the parameter's own tag.
C26_PortWrite ==
  (lastCall.op = "port_write" /\ lastCall.r.tag = "Ok") =>
    /\ lastCall.polls >= 1
    /\ i2c_log =
         WaitLog(lastCall.polls)
           \o << Write(<< 195 >> \o [i \in 1..8 |-> lastCall.arg[PortFields[i]]]),
                 WriteRead(<< 225, 180 >>) >>
    /\ \A i \in 1..8 :
         /\ lastCall.arg[PortFields[i]] \div 16 = PortTags[i]
         /\ port[PortFields[i]] = 16 * PortTags[i] + (ChipPortBytes(port_reg)[i] % 16)

\* the write of a configuration with tREC0 index 8 that the chip took
C26_Witness ==
  /\ lastCall.op = "port_write"
  /\ lastCall.r.tag = "Ok"
  /\ ~lastCall.line_busy
  /\ lastCall.arg.t_rec0 = 104
  /\ lastCall.arg.r_wpu = 128
  /\ port = lastCall.arg
  /\ Len(i2c_log) = 4

(***************************************************************************)
(* Properties of the passes of the search.                                 *)
(***************************************************************************)
\* the positions (1..64) at which device d differs from the code r
Differences(d, r) == { n \in 1..64 : RomBit(d, n) # RomBit(r, n) }

\* the first position at which d leaves the path r: up to there d takes part
Lowest(ns) == CHOOSE n \in ns : \A m \in ns : n <= m

Highest(ns) == CHOOSE n \in ns : \A m \in ns : n >= m

\* the positions of the path r over which both bits read 0 (a device on the
\* path and a device leaving it there) and the direction taken was 0
ZeroBranches(r, devs) ==
  { n \in { Lowest(Differences(d, r)) : d \in { e \in devs : e # r } } :
      ~RomBit(r, n) }

\* C28: after a pass over all 64 bits, last_discrepancy is the highest
\* position at which both bits read 0 and the direction taken was 0 (0 when
\* there is none), and last_device is set exactly when it is 0; between calls
\* 0 <= last_discrepancy <= 64.
C28_DiscrepancyBookkeeping ==
  /\ last_discrepancy \in 0..64
  /\ (lastOp = "next" /\ lastPass = "done") =>
       /\ last_discrepancy = Highest(ZeroBranches(rom, bus) \cup {0})
       /\ last_device = (last_discrepancy = 0)

\* device d goes the way a pass from search state s navigates at position n
Takes(d, s, n) == RomBit(d, n) = direction(s, n, (n - 1) \div 8, 2 ^ ((n - 1) % 8))

\* the path of a pass from search state s over the devices devs: the device it
\* arrives at, which at every position where another device leaves its path
\* goes the way the pass navigates
Path(s, devs) ==
  CHOOSE d \in devs :
    \A e \in devs \ {d} : Takes(d, s, Lowest(Differences(d, e)))

\* the bus operations of a pass given up at position at: reset, the search
\* command, and then one triplet for every position up to at, or both bits
\* of every position up to at and the direction of every position before at
OpsUpTo(trip, at) ==
  IF trip
  THEN [NoOps EXCEPT !.reset = 1, !.write_byte = 1, !.read_triplet = at]
  ELSE [NoOps EXCEPT !.reset = 1, !.write_byte = 1, !.read_bit = 2 * at,
                     !.write_bit = at - 1]

\* C29: when both bits read 1 at some position, next() gives the pass up: no
\* bus operation follows in that call (the direction of that position is not
\* written), it returns None and not an error, and last_discrepancy and
\* last_device are as before the call, so that the next call takes the path
\* this one was on.
C29_CorruptedPass ==
  [][ (lastOp' = "next" /\ lastPass' = "corrupt") =>
        /\ lastRes' = None
        /\ last_discrepancy' = last_discrepancy
        /\ last_device' = last_device
        /\ (IF triplet THEN lastOps' ELSE BusOps(lastOps'))
             = OpsUpTo(triplet, lastFault'.at)
        /\ Path(SearchState', bus) = Path(SearchState, bus) ]_vars

\* a pass of a search that has a branch left is given up
C29_Witness ==
  /\ lastOp = "next"
  /\ lastPass = "corrupt"
  /\ lastFault.kind = "corrupt"
  /\ lastRes = None
  /\ last_discrepancy > 0
  /\ ~last_device
  /\ lastOps.read_bit = 2 * lastFault.at
  /\ Len(found) = 0

(***************************************************************************)
(* Properties of the triplet primitive of the bridge.                      *)
(***************************************************************************)
\* C30: the direction byte sent with the triplet command 0x78 is the
\* navigation direction of the search at that position (0xFF for 1, 0x00 for
\* 0), so that the write slot carries it when both read slots are 0.
C30_TripletDirection ==
  (lastCall.op = "read_triplet" /\ lastCall.r.tag = "Ok") =>
    \E k \in 1..Len(i2c_log) :
      i2c_log[k] = Write(<< 120, IF lastCall.arg = 1 THEN 255 ELSE 0 >>)

(***************************************************************************)
(* Properties of the order of the I2C transfers of a call.                 *)
(***************************************************************************)
\* the transfers that need a free 1-Wire line: the function commands, the
\* Configuration write and the port write
GuardedCommands ==
  { ONEWIRE_RESET_CMD, ONEWIRE_WRITE_BYTE, ONEWIRE_READ_BYTE, ONEWIRE_SINGLE_BIT,
    ONEWIRE_TRIPLET, CONFIG_WRITE_ADDR, PORT_WRITE_ADDR }

IsGuarded(t) == t.op # "read" /\ t.bytes[1] \in GuardedCommands

\* the number of Status reads that come directly before transfer i
RECURSIVE ReadsBefore(_, _)
ReadsBefore(log, i) ==
  IF i > 1 /\ log[i - 1] = Read THEN 1 + ReadsBefore(log, i - 1) ELSE 0

\* transfer i follows a pointer select of the Status register and n >= 1
\* Status reads, the last of which showed 1WB = 0
AfterFreeStatus(log, i, n, env) ==
  /\ n >= 1
  /\ i - n - 1 >= 1
  /\ log[i - n - 1] = Write(<< READ_PTR_CMD, DEVICE_STATUS_PTR >>)
  /\ ~LineBusy(env, n)

StatusCalls == { "onewire_wait", "bus_reset", "get_status" }

\* the byte the Status register showed at the last read of the last call
LastStatusByte == ChipStatus(chip, lastCall.line_busy)

PolledFrom(log, k, m, env) ==
  /\ m >= k + 2
  /\ log[k + 1] = Write(<< READ_PTR_CMD, DEVICE_STATUS_PTR >>)
  /\ \A j \in (k + 2)..m : log[j] = Read
  /\ ~LineBusy(env, m - k - 1)

\* the transfers of the last call that carry the bytes of command
Sent(command) == { k \in 1..Len(i2c_log) : i2c_log[k] = Write(command) }

ReadsWithRst ==
  { k \in 1..lastCall.polls : lastCall.env.rst_shown /\ RstShown(lastCall.env, k) }

\* C34: bus_reset sends the Device Reset command 0xF0, sets the
\* device-has-been-reset flag of the handle and polls the Status register;
\* it returns Ok with that Status whenever a Status read it made shows RST,
\* also when RST first appears on the last read it makes, and it returns
\* RetriesExceeded only when no read showed RST.
C34_DeviceResetPolling ==
  (lastCall.op = "bus_reset" /\ lastCall.env.fail_at = 0) =>
    /\ i2c_log[1] = Write(<< DEVICE_RST_CMD >>)
    /\ \A k \in 2..Len(i2c_log) : i2c_log[k] = Read
    /\ Len(i2c_log) = lastCall.polls + 1
    /\ dev.reset
    /\ ReadsWithRst # {} =>
         /\ lastCall.r.tag = "Ok"
         /\ device_reset(lastCall.r.val)
    /\ lastCall.r = Err("RetriesExceeded") => ReadsWithRst = {}

(***************************************************************************)
(* Properties of the fields of the handle.                                 *)
(***************************************************************************)
\* the primitives that work with bytes and bits
BytePrimitives == { "reset", "write_byte", "read_byte", "write_bit", "read_bit" }

\* C35: a 1-Wire primitive (reset, write_byte, read_byte, write_bit,
\* read_bit) that fails changes no field of the handle (retry budget,
\* device-has-been-reset flag, overdrive flag), and no operation on a built
\* handle changes the retry budget.
C35_FailureKeepsHandle ==
  [][ /\ (lastCall'.op \in BytePrimitives /\ lastCall'.r.tag # "Ok") => dev' = dev
      /\ lastCall'.op # "build" => dev'.retries = dev.retries ]_vars

\* with the overdrive flag set, reset() finds a short
C35_Witness ==
  /\ lastCall.op = "reset"
  /\ lastCall.r = Err("ShortCircuit")
  /\ lastCall.pre.overdrive
  /\ dev.overdrive
  /\ ~dev.reset
  /\ dev.retries = MaxRetries

(***************************************************************************)
(* Properties of the attempt counter of the polls.                         *)
(***************************************************************************)
\* the bridge never becomes ready during the last call: 1WB stays 1 for a
\* busy-poll, RST stays 0 after a Device Reset
NeverReady ==
  \/ lastCall.op = "onewire_wait" /\ lastCall.env.always
  \/ lastCall.op = "bus_reset" /\ ~lastCall.env.rst_shown

\* C36: for every retry budget the builder accepts, 255 included, a
\* busy-poll or device-reset poll on a bridge that never becomes ready ends
\* with RetriesExceeded: the 8-bit attempt counter does not overflow and the
\* loop does not run forever.
C36_RetryCounterRange ==
  NeverReady => lastCall.r = Err("RetriesExceeded")

(***************************************************************************)
(* Properties of the overdrive flag of the handle.                         *)
(***************************************************************************)
\* the 1WS bit the Configuration register of the chip holds
ChipSpeed == Bit(chip.cfg, 8)

\* C37: between operations the overdrive flag of the handle (what
\* get_overdrive_mode returns) equals the speed bit held in the Configuration
\* register of the bridge, across build, set_overdrive_mode, bus_reset and
\* Configuration writes.
C37_OverdriveFlagConsistency == dev.overdrive = ChipSpeed

(***************************************************************************)
(* Properties of the getters of OneWirePortConfiguration.                  *)
(***************************************************************************)
\* the getter of field f reports the entry of table the builder chose for
\* value, and that is not below value
Reported(f, table, value) ==
  value <= table[16] =>
    /\ libCall.r.val[f] = table[Selected(table, value) + 1]
    /\ libCall.r.val[f] >= value

\* what the getter of field f reports does not fall when the index grows
NonDecreasing(f) ==
  \A i \in 0..14 :
    times([port EXCEPT ![f] = set_index(@, i)])[f]
      <= times([port EXCEPT ![f] = set_index(@, i + 1)])[f]

\* the getters that read what reset_pulse and write_zero_low_time set, and
\* the overdrive presence-detect time
GettersOfTables ==
  /\ libCall.arg.method = "reset_pulse" =>
       /\ Reported("t_rstl", reset_pulse_NORMAL, libCall.arg.normal)
       /\ Reported("t_rstl_od", reset_pulse_OVERDRIVE, libCall.arg.overdrive)
  /\ libCall.arg.method = "presence_detect_time" =>
       Reported("t_msp_od", presence_detect_time_OVERDRIVE, libCall.arg.overdrive)
  /\ libCall.arg.method = "write_zero_low_time" =>
       /\ Reported("t_w0l", write_zero_low_time_NORMAL, libCall.arg.normal)
       /\ Reported("t_w0l_od", write_zero_low_time_OVERDRIVE, libCall.arg.overdrive)
  /\ \A f \in {"t_rstl", "t_rstl_od", "t_msp_od", "t_w0l", "t_w0l_od", "t_rec0"} :
       NonDecreasing(f)

\* C38: for every timing parameter and every requested value within the
\* range of its table, the getter of the built configuration reports the
\* tabulated time of the chosen index, which is >= the requested value, and
\* what each getter reports is non-decreasing in the 4-bit index.
C38_GettersAgreeWithBuilder ==
  libCall.op = "getters" =>
    /\ GettersOfTables
    /\ libCall.arg.method = "presence_detect_time" =>
         Reported("t_msp", presence_detect_time_NORMAL, libCall.arg.normal)
    /\ libCall.arg.method = "write_zero_recovery_time" =>
         Reported("t_rec0", write_zero_recovery_time_VALUES, libCall.arg.normal)
    /\ NonDecreasing("t_msp")

(***************************************************************************)
(* Properties of Ds28ea00Group.                                            *)
(***************************************************************************)
\* the stores of the last call
Stores == { groupCall.stores[i] : i \in 1..Len(groupCall.stores) }

\* the device count never exceeds N
CountInBounds == group.devices <= group.N

\* what enumerate stores is a code the family search returned to it, and
\* the array holds it
StoresFromSearch ==
  \A i \in 1..Len(groupCall.stores) :
    /\ groupCall.stores[i].rom = groupCall.returned[i]
    /\ to_le_bytes(groupCall.stores[i].rom)[1] = Ds28ea00Group_family
    /\ groupCall.stores[i].index < group.N =>
         group.roms[groupCall.stores[i].index + 1] = groupCall.stores[i].rom

\* C39: across any number of enumerate calls on the same group and any
\* number of devices on the bus, the device count never exceeds N, every
\* index enumerate stores a code at lies in 0..N-1, and it stores only
\* codes returned by the family-0x42 search.
C39_GroupInBounds ==
  /\ CountInBounds
  /\ \A st \in Stores : st.index \in 0..(group.N - 1)
  /\ StoresFromSearch

====
